---- MODULE Spec2Model ----
(***************************************************************************)
(* Waxy-Timer (src/main_v1_0_2.py): the activity clock (ActivityTimer),    *)
(* the global input hooks (InputHookController._run and its two pynput     *)
(* listener callbacks) and the hit test (hwnd_is_target_or_child).         *)
(*                                                                         *)
(* Three execution contexts share the clock: the Qt control thread "ui",   *)
(* the keyboard listener thread "kb" and the mouse listener thread "ms".   *)
(* Every `with self._lock:` block is two steps (acquire; body + release),  *)
(* so that the body is a state in which the lock is seen held.  Time is    *)
(* time.time() in whole seconds, advancing in steps of TickSeconds.        *)
(*                                                                         *)
(* SpecClock and SpecObserver are the clock and the listener callbacks,    *)
(* SpecFailures the callbacks over a window tree whose lookups may raise,  *)
(* SpecHooks and SpecHooksFair the start()/stop()/_run lifecycle of the    *)
(* controller, SpecResolver the window combo: _refresh_windows,            *)
(* _select_best_default_target and _on_target_changed (SpecResolverLate    *)
(* the same some time after the last reset), SpecWalk the hit test one OS  *)
(* call at a time, SpecDirectory list_target_windows one window at a time, *)
(* SpecScenario the display poll _tick_ui second by second, SpecPoll the   *)
(* poll beside configuration changes, resets, activity and a wall clock    *)
(* that may be set back, SpecConfig the length and threshold fields with   *)
(* the thresholds _load_persistent_state may leave, SpecSound the warning  *)
(* sound of the poll in half seconds.                                      *)
(***************************************************************************)
EXTENDS Integers, Sequences, FiniteSets, TLC

\* ---------------------------------------------------------------- bounds
NumWindows == 3
TickSeconds == 300
MaxTime == 900
MaxThreads == 2
ScenarioEnd == 100
SoundEnd == 4

\* ------------------------------------------------------ program constants
Length90 == 90
Length600 == 600
Lengths == {Length90, Length600}

UI == "ui"
KB == "kb"
MS == "ms"
Threads == {UI, KB, MS}
Observers == {KB, MS}
NoThread == "free"

Hwnds == 1..NumWindows
HwndOrZero == 0..NumWindows
\* A win32 query that raises (pywin32 turns a failed call into an exception).
QueryFailed == -1

\* The background threads start() can make, in the order it makes them.
ThreadIds == 1..MaxThreads

VARIABLES
  now,               \* time.time()
  last_activity_ts,  \* ActivityTimer._last_activity_ts
  lock,              \* ActivityTimer._lock: the thread holding it, or NoThread
  length_seconds,    \* TimerConfig.length_seconds
  count_below_zero,  \* TimerConfig.count_below_zero
  target_hwnd,       \* ActivityTimer.target_hwnd
  pc,                \* position of each thread
  elapsed,           \* local of remaining_seconds: <<>> or <<value>>
  ret,               \* value returned by remaining_seconds: <<>> or <<value>>
  ev,                \* per listener thread: the event being handled and its locals
  parentOf,          \* OS: win32gui.GetParent
  rootOf,            \* OS: win32gui.GetAncestor(h, GA_ROOT)
  writeAt,           \* history: time of the last write of the timestamp
  writer,            \* history: the operation that made the last write
  readOf,            \* history: at the locked read, the time since the last write and its writer
  clampedSince,      \* history: a read was clamped since the last write
  shadow_ts,         \* twin clock: every reset_to_full replaced by note_activity and vice versa
  shadowRet,         \* twin clock: value the twin's remaining_seconds returns
  stop_event,        \* InputHookController._stop_event
  thread_ref,        \* InputHookController._thread: a thread number, or 0 for None
  kb_ref,            \* InputHookController._kb_listener: the thread that made it, or 0 for None
  ms_ref,            \* InputHookController._mouse_listener: the thread that made it, or 0 for None
  run,               \* position of every background thread made by start()
  lsn,               \* state of the listener pair of every background thread
  swallowed,         \* history: exceptions the current stop() has caught and dropped
  combo_items,       \* MainWindow.window_combo: the items, <<hwnd, title>> each
  combo_index,       \* MainWindow.window_combo.currentIndex(), counted from 1; 0 for none
  preferred_hint,    \* MainWindow._preferred_window_hint
  listing,           \* list_target_windows: its locals, the OS answers of its last callback, the lookups that failed,
                     \* the process handles its last lookup opened and closed, those still open
  lastOp,            \* history: the refresh that has just run and the handle it found selected
  threshold_seconds, \* TimerConfig.threshold_seconds
  sound_threshold_seconds, \* TimerConfig.sound_threshold_seconds
  sound_fired,       \* MainWindow._sound_fired
  last_remaining,    \* MainWindow._last_remaining: <<value>>, or <<>> for None
  danger,            \* _tick_ui: the danger flag of the last poll, shown as the colour of the display
  polled,            \* history: the timestamp the last poll read, and whether the poll before read the same
  alert              \* history: the sound played by the last poll (again: after a rise), the plays
                     \* since the last rearm, a rise and a return above the sound threshold polled
                     \* since the last play

clockVars == <<last_activity_ts, lock, length_seconds, count_below_zero, target_hwnd>>
osVars == <<parentOf, rootOf>>
histVars == <<writeAt, writer, readOf, clampedSince, shadow_ts, shadowRet>>
hookVars == <<stop_event, thread_ref, kb_ref, ms_ref, run, lsn, swallowed>>
winVars == <<combo_items, combo_index, preferred_hint, listing, lastOp>>
pollVars == <<threshold_seconds, sound_threshold_seconds, last_remaining, danger, polled>>
soundVars == <<sound_fired, alert>>
tickVars == <<pollVars, soundVars>>
uiVars == <<winVars, tickVars>>
vars == <<now, clockVars, pc, elapsed, ret, ev, osVars, histVars, hookVars, uiVars>>

\* TimerConfig.threshold_seconds (line 167), the threshold of the long timer
\* (line 1081), DEFAULT_SOUND_THRESHOLD (line 37)
Threshold15 == 15
Threshold60 == 60

\* The margin of a rearm is 0.75 s (line 1195): the clock that shows a rise
\* below the margin counts half seconds.
Halves == 2
DEFAULT_SOUND_THRESHOLD == 15

\* ------------------------------------------------------------ pure parts
Max(a, b) == IF a >= b THEN a ELSE b

\* remaining_seconds, lines 197-200: the value computed from the elapsed time.
Remaining_NoClamp(len, el, belowZero) == len - el
Remaining_AlwaysClamp(len, el, belowZero) == Max(0, len - el)
Remaining(len, el, belowZero) ==
  IF ~belowZero THEN Max(0, len - el) ELSE len - el

\* remaining_seconds, line 196: elapsed = time.time() - self._last_activity_ts
Elapsed(t, ts) == t - ts

\* reset_to_full, line 188, and note_activity, line 192: the timestamp stored.
ResetToFullTs_Keep(t, ts) == ts
ResetToFullTs(t, ts) == t
NoteActivityTs_Keep(t, ts) == ts
NoteActivityTs(t, ts) == t

\* set_target_hwnd, line 184: int(hwnd) if hwnd else 0
TargetOf(h) == IF h # 0 THEN h ELSE 0

\* hwnd_is_target_or_child, lines 140-147: the walk up the GetParent chain.
\* `fuel` bounds the recursion of the model; the chain of an OS parent relation
\* without cycles is shorter than the number of windows.
RECURSIVE ParentWalk(_, _, _, _)
ParentWalk(cur, target, par, fuel) ==
  IF cur = 0 \/ fuel = 0 THEN FALSE
  ELSE LET nxt == par[cur] IN
       IF nxt = QueryFailed THEN FALSE
       ELSE IF nxt = target THEN TRUE
       ELSE ParentWalk(nxt, target, par, fuel - 1)

\* hwnd_is_target_or_child, lines 134-158.
HwndIsTargetOrChild_ExactOnly(clicked, target, par, root) ==
  clicked # 0 /\ target # 0 /\ clicked = target
HwndIsTargetOrChild_AnyWindow(clicked, target, par, root) ==
  clicked # 0
HwndIsTargetOrChild(clicked, target, par, root) ==
  IF clicked = 0 \/ target = 0 THEN FALSE
  ELSE IF clicked = target THEN TRUE
  ELSE IF ParentWalk(clicked, target, par, NumWindows + 1) THEN TRUE
  ELSE /\ root[clicked] # QueryFailed
       /\ root[target] # QueryFailed
       /\ root[clicked] # 0
       /\ root[target] # 0
       /\ root[clicked] = root[target]

\* ------------------------------------------------------------ listener locals
\* cur is the local of the parent walk, calls the GetParent calls it has made
NoEvent == [kind |-> "none", pressed |-> FALSE, target |-> 0, queried |-> FALSE,
            hwnd |-> 0, noted |-> FALSE, cur |-> 0, calls |-> 0]
Event(k, p, tg) == [kind |-> k, pressed |-> p, target |-> tg, queried |-> FALSE,
                    hwnd |-> 0, noted |-> FALSE, cur |-> 0, calls |-> 0]

NoRead == [elapsed |-> 0, writer |-> "none"]

\* ------------------------------------------------------------ the lock
Acquire_NoWait(t) == lock' = t
Acquire(t) == lock = NoThread /\ lock' = t
Release_Forget(t) == lock' = lock
Release(t) == lock' = NoThread

\* ------------------------------------------------------------ initial state
\* ActivityTimer.__init__ (lines 176-181) with both listeners waiting for
\* events.  One fixed window tree: window 2 is a child of window 1, every other
\* window is a root of its own.
InitTimer ==
  /\ now = 0
  /\ last_activity_ts = 0
  /\ lock = NoThread
  /\ pc = [t \in Threads |-> "idle"]
  /\ elapsed = <<>>
  /\ ret = <<>>
  /\ ev = [t \in Observers |-> NoEvent]
  /\ writeAt = 0
  /\ writer = "init"
  /\ readOf = NoRead
  /\ clampedSince = FALSE
  /\ shadow_ts = 0
  /\ shadowRet = <<>>

InitTree ==
  /\ parentOf = [h \in Hwnds |-> IF h = 2 THEN 1 ELSE 0]
  /\ rootOf = [h \in Hwnds |-> IF h = 2 THEN 1 ELSE h]

\* InputHookController.__init__, lines 207-213: nothing started yet.
InitHooksNew ==
  /\ stop_event = FALSE
  /\ thread_ref = 0
  /\ kb_ref = 0
  /\ ms_ref = 0
  /\ run = [i \in ThreadIds |-> "unborn"]
  /\ swallowed = 0
  /\ lsn = [i \in ThreadIds |-> [kb |-> "none", ms |-> "none"]]

\* The hooks once MainWindow.__init__ has called start() (line 470) and the
\* first thread has both listeners running.
InitHooksRunning ==
  /\ stop_event = FALSE
  /\ thread_ref = 1
  /\ kb_ref = 1
  /\ ms_ref = 1
  /\ run = [i \in ThreadIds |-> IF i = 1 THEN "loop" ELSE "unborn"]
  /\ swallowed = 0
  /\ lsn = [i \in ThreadIds |-> IF i = 1 THEN [kb |-> "running", ms |-> "running"]
                                          ELSE [kb |-> "none", ms |-> "none"]]

\* No refresh has just returned.
NoOp == [op |-> "none", prev |-> 0]

\* list_target_windows is not running.
NoAnswer == [visible |-> FALSE, title |-> <<>>, style |-> "plain",
             exe |-> [pid |-> "none", open |-> "fails", path |-> <<>>]]
NoHandle == [opened |-> 0, closed |-> 0]
NoListing == [pos |-> 0, results |-> <<>>, last |-> NoAnswer, failed |-> 0, out |-> <<>>,
              hproc |-> NoHandle, held |-> 0]

\* The window with no window listed and nothing selected.
InitWindow ==
  /\ listing = NoListing
  /\ combo_items = <<>>
  /\ combo_index = 0
  /\ lastOp = NoOp

\* The display as the poll that ends __init__ (line 767), or the latest poll
\* since, has left it: the thresholds of TimerConfig (lines 167, 170), the
\* value polled, the sound fired once the value is at or under its threshold.
\* The clock is in units of 1/scale seconds.
InitTickAt(scale, thr) ==
  /\ threshold_seconds = thr
  /\ sound_threshold_seconds = DEFAULT_SOUND_THRESHOLD
  /\ last_remaining =
       <<Remaining(scale * length_seconds, Elapsed(now, last_activity_ts), count_below_zero)>>
  /\ sound_fired = (last_remaining[1] <= scale * sound_threshold_seconds)
  /\ danger = (last_remaining[1] <= scale * threshold_seconds)
  /\ polled = [ts |-> last_activity_ts, same |-> FALSE]
  /\ alert = [played |-> FALSE, again |-> FALSE, count |-> IF sound_fired THEN 1 ELSE 0,
              risen |-> FALSE, returned |-> FALSE]

InitTickWith(thr) == InitTickAt(1, thr)
InitTick == InitTickWith(Threshold15)

\* _load_persistent_state, lines 927-934: nothing saved gives the default of the
\* length, a saved whole number is clamped at 0, any other saved value gives 15
DefaultThreshold(len) == IF len = Length90 THEN Threshold15 ELSE Threshold60
LoadThreshold(saved, len) ==
  IF saved.kind = "none" THEN DefaultThreshold(len)
  ELSE IF saved.kind = "int" THEN Max(0, saved.v)
  ELSE Threshold15

InitCommon ==
  /\ InitTimer
  /\ InitTree
  /\ InitHooksRunning
  /\ InitWindow
  /\ preferred_hint = <<>>

\* The clock under every configuration the window can load (length 90 or 600,
\* the check box either way), with window 1 selected as the target.
InitClock ==
  /\ InitCommon
  /\ length_seconds \in Lengths
  /\ count_below_zero \in BOOLEAN
  /\ target_hwnd = 1
  /\ InitTick

\* The observer under the default configuration (TimerConfig, lines 166-168),
\* no target selected yet.
InitObserver ==
  /\ InitCommon
  /\ length_seconds = Length90
  /\ count_below_zero = TRUE
  /\ target_hwnd = 0
  /\ InitTick

\* ------------------------------------------------------------ time
Advance ==
  /\ now + TickSeconds <= MaxTime
  /\ now' = now + TickSeconds
  /\ UNCHANGED <<clockVars, pc, elapsed, ret, ev, osVars, hookVars, uiVars, histVars>>

\* ------------------------------------------------------------ control thread
\* ActivityTimer.set_target_hwnd
SetTargetHwnd(h) ==
  /\ pc[UI] = "idle"
  /\ target_hwnd' = TargetOf(h)
  /\ UNCHANGED <<now, last_activity_ts, lock, length_seconds, count_below_zero,
                 pc, elapsed, ret, ev, osVars, hookVars, uiVars, histVars>>

\* MainWindow._on_below_zero_changed
OnBelowZeroChanged(b) ==
  /\ pc[UI] = "idle"
  /\ count_below_zero' = b
  /\ UNCHANGED <<now, last_activity_ts, lock, length_seconds, target_hwnd,
                 pc, elapsed, ret, ev, osVars, hookVars, uiVars, histVars>>

\* ActivityTimer.reset_to_full: the call, the lock, the store
ResetToFullCall ==
  /\ pc[UI] = "idle"
  /\ pc' = [pc EXCEPT ![UI] = "reset_acq"]
  /\ UNCHANGED <<now, clockVars, elapsed, ret, ev, osVars, hookVars, uiVars, histVars>>

ResetToFullAcquire ==
  /\ pc[UI] = "reset_acq"
  /\ Acquire(UI)
  /\ pc' = [pc EXCEPT ![UI] = "reset_write"]
  /\ UNCHANGED <<now, last_activity_ts, length_seconds, count_below_zero, target_hwnd,
                 elapsed, ret, ev, osVars, hookVars, uiVars, histVars>>

ResetToFullWrite ==
  /\ pc[UI] = "reset_write"
  /\ last_activity_ts' = ResetToFullTs(now, last_activity_ts)
  /\ shadow_ts' = NoteActivityTs(now, shadow_ts)
  /\ Release(UI)
  /\ writeAt' = now
  /\ writer' = "reset"
  /\ clampedSince' = FALSE
  /\ pc' = [pc EXCEPT ![UI] = "idle"]
  /\ UNCHANGED <<now, length_seconds, count_below_zero, target_hwnd,
                 elapsed, ret, ev, osVars, hookVars, uiVars, readOf, shadowRet>>

\* ActivityTimer.remaining_seconds: the call, the lock, the locked read, the result
RemainingSecondsCall ==
  /\ pc[UI] = "idle"
  /\ pc' = [pc EXCEPT ![UI] = "rs_acq"]
  /\ UNCHANGED <<now, clockVars, elapsed, ret, ev, osVars, hookVars, uiVars, histVars>>

RemainingSecondsAcquire ==
  /\ pc[UI] = "rs_acq"
  /\ Acquire(UI)
  /\ pc' = [pc EXCEPT ![UI] = "rs_read"]
  /\ UNCHANGED <<now, last_activity_ts, length_seconds, count_below_zero, target_hwnd,
                 elapsed, ret, ev, osVars, hookVars, uiVars, histVars>>

RemainingSecondsRead_ClampStored ==
  /\ pc[UI] = "rs_read"
  /\ elapsed' = <<Elapsed(now, last_activity_ts)>>
  /\ last_activity_ts' = IF ~count_below_zero /\ now - last_activity_ts > length_seconds
                         THEN now - length_seconds ELSE last_activity_ts
  /\ shadowRet' = <<Remaining(length_seconds, Elapsed(now, shadow_ts), count_below_zero)>>
  /\ readOf' = [elapsed |-> now - writeAt, writer |-> writer]
  /\ Release(UI)
  /\ pc' = [pc EXCEPT ![UI] = "rs_ret"]
  /\ UNCHANGED <<now, length_seconds, count_below_zero, target_hwnd,
                 ret, ev, osVars, hookVars, uiVars, writeAt, writer, clampedSince, shadow_ts>>

RemainingSecondsRead ==
  /\ pc[UI] = "rs_read"
  /\ elapsed' = <<Elapsed(now, last_activity_ts)>>
  /\ shadowRet' = <<Remaining(length_seconds, Elapsed(now, shadow_ts), count_below_zero)>>
  /\ readOf' = [elapsed |-> now - writeAt, writer |-> writer]
  /\ Release(UI)
  /\ pc' = [pc EXCEPT ![UI] = "rs_ret"]
  /\ UNCHANGED <<now, last_activity_ts, length_seconds, count_below_zero, target_hwnd,
                 ret, ev, osVars, hookVars, uiVars, writeAt, writer, clampedSince, shadow_ts>>

RemainingSecondsReturn ==
  /\ pc[UI] = "rs_ret"
  /\ ret' = <<Remaining(length_seconds, elapsed[1], count_below_zero)>>
  /\ clampedSince' = (clampedSince \/
                      (~count_below_zero /\ length_seconds - elapsed[1] < 0))
  /\ pc' = [pc EXCEPT ![UI] = "rs_done"]
  /\ UNCHANGED <<now, clockVars, elapsed, ev, osVars, hookVars, uiVars,
                 writeAt, writer, readOf, shadow_ts, shadowRet>>

\* the caller has consumed the result
RemainingSecondsDone ==
  /\ pc[UI] = "rs_done"
  /\ pc' = [pc EXCEPT ![UI] = "idle"]
  /\ elapsed' = <<>>
  /\ ret' = <<>>
  /\ shadowRet' = <<>>
  /\ readOf' = NoRead
  /\ UNCHANGED <<now, clockVars, ev, osVars, hookVars, uiVars,
                 writeAt, writer, clampedSince, shadow_ts>>

\* ------------------------------------------------------------ listener threads
Goto(t, where) == pc' = [pc EXCEPT ![t] = where]

\* on_key_press, lines 246-249: the target is read when the event is handled
OnKeyPress_NoZeroCheck ==
  /\ pc[KB] = "idle"
  /\ ev' = [ev EXCEPT ![KB] = Event("key", TRUE, target_hwnd)]
  /\ Goto(KB, "kp_fg")
  /\ UNCHANGED <<now, clockVars, elapsed, ret, osVars, hookVars, uiVars, histVars>>

OnKeyPress_TargetAtStart ==
  /\ pc[KB] = "idle"
  /\ ev' = [ev EXCEPT ![KB] = Event("key", TRUE, 0)]
  /\ Goto(KB, "ret")
  /\ UNCHANGED <<now, clockVars, elapsed, ret, osVars, hookVars, uiVars, histVars>>

OnKeyPress ==
  /\ pc[KB] = "idle"
  /\ ev' = [ev EXCEPT ![KB] = Event("key", TRUE, target_hwnd)]
  /\ Goto(KB, IF target_hwnd = 0 THEN "ret" ELSE "kp_fg")
  /\ UNCHANGED <<now, clockVars, elapsed, ret, osVars, hookVars, uiVars, histVars>>

\* on_key_press, lines 250-251: get_foreground_window() answers any window or none
KeyPressForeground_NoFocusCheck ==
  /\ pc[KB] = "kp_fg"
  /\ \E fg \in HwndOrZero :
       /\ ev' = [ev EXCEPT ![KB].queried = TRUE, ![KB].hwnd = fg]
       /\ Goto(KB, "na_acq")
  /\ UNCHANGED <<now, clockVars, elapsed, ret, osVars, hookVars, uiVars, histVars>>

KeyPressForeground ==
  /\ pc[KB] = "kp_fg"
  /\ \E fg \in HwndOrZero :
       LET hit == (fg = ev[KB].target) IN
       /\ ev' = [ev EXCEPT ![KB].queried = TRUE, ![KB].hwnd = fg]
       /\ Goto(KB, IF hit THEN "na_acq" ELSE "ret")
  /\ UNCHANGED <<now, clockVars, elapsed, ret, osVars, hookVars, uiVars, histVars>>

\* keyboard.Listener(on_press=on_key_press), line 266: no on_release callback
OnKeyRelease ==
  /\ pc[KB] = "idle"
  /\ ev' = [ev EXCEPT ![KB] = Event("key", FALSE, 0)]
  /\ Goto(KB, "ret")
  /\ UNCHANGED <<now, clockVars, elapsed, ret, osVars, hookVars, uiVars, histVars>>

\* on_click, lines 253-258
OnClick_IgnorePressed(pressed) ==
  /\ pc[MS] = "idle"
  /\ ev' = [ev EXCEPT ![MS] = Event("click", pressed, target_hwnd)]
  /\ Goto(MS, IF target_hwnd = 0 THEN "ret" ELSE "clk_hit")
  /\ UNCHANGED <<now, clockVars, elapsed, ret, osVars, hookVars, uiVars, histVars>>

OnClick(pressed) ==
  /\ pc[MS] = "idle"
  /\ ev' = [ev EXCEPT ![MS] = Event("click", pressed, IF pressed THEN target_hwnd ELSE 0)]
  /\ Goto(MS, IF ~pressed \/ target_hwnd = 0 THEN "ret" ELSE "clk_hit")
  /\ UNCHANGED <<now, clockVars, elapsed, ret, osVars, hookVars, uiVars, histVars>>

\* on_click, lines 259-264: WindowFromPoint answers a window, none, or raises;
\* then the hit test against the target read above
ClickHitTest_FailureEscapes ==
  /\ pc[MS] = "clk_hit"
  /\ \E w \in HwndOrZero \cup {QueryFailed} :
       LET hit == /\ w # QueryFailed
                  /\ HwndIsTargetOrChild(w, ev[MS].target, parentOf, rootOf) IN
       /\ ev' = [ev EXCEPT ![MS].queried = TRUE, ![MS].hwnd = w]
       /\ Goto(MS, IF w = QueryFailed THEN "raised" ELSE IF hit THEN "na_acq" ELSE "ret")
  /\ UNCHANGED <<now, clockVars, elapsed, ret, osVars, hookVars, uiVars, histVars>>

ClickHitTest ==
  /\ pc[MS] = "clk_hit"
  /\ \E w \in HwndOrZero \cup {QueryFailed} :
       LET hit == /\ w # QueryFailed
                  /\ HwndIsTargetOrChild(w, ev[MS].target, parentOf, rootOf) IN
       /\ ev' = [ev EXCEPT ![MS].queried = TRUE, ![MS].hwnd = w]
       /\ Goto(MS, IF hit THEN "na_acq" ELSE "ret")
  /\ UNCHANGED <<now, clockVars, elapsed, ret, osVars, hookVars, uiVars, histVars>>

\* mouse.Listener(on_click=on_click), line 267: no on_move and no on_scroll callback
OnMove_AsClick ==
  /\ pc[MS] = "idle"
  /\ ev' = [ev EXCEPT ![MS] = Event("move", FALSE, target_hwnd)]
  /\ Goto(MS, "na_acq")
  /\ UNCHANGED <<now, clockVars, elapsed, ret, osVars, hookVars, uiVars, histVars>>

OnMove ==
  /\ pc[MS] = "idle"
  /\ ev' = [ev EXCEPT ![MS] = Event("move", FALSE, 0)]
  /\ Goto(MS, "ret")
  /\ UNCHANGED <<now, clockVars, elapsed, ret, osVars, hookVars, uiVars, histVars>>

OnScroll ==
  /\ pc[MS] = "idle"
  /\ ev' = [ev EXCEPT ![MS] = Event("scroll", FALSE, 0)]
  /\ Goto(MS, "ret")
  /\ UNCHANGED <<now, clockVars, elapsed, ret, osVars, hookVars, uiVars, histVars>>

\* ActivityTimer.note_activity, called from a listener thread
NoteActivityAcquire(t) ==
  /\ pc[t] = "na_acq"
  /\ Acquire(t)
  /\ Goto(t, "na_write")
  /\ UNCHANGED <<now, last_activity_ts, length_seconds, count_below_zero, target_hwnd,
                 elapsed, ret, ev, osVars, hookVars, uiVars, histVars>>

NoteActivityWrite(t) ==
  /\ pc[t] = "na_write"
  /\ last_activity_ts' = NoteActivityTs(now, last_activity_ts)
  /\ shadow_ts' = ResetToFullTs(now, shadow_ts)
  /\ Release(t)
  /\ writeAt' = now
  /\ writer' = "note"
  /\ clampedSince' = FALSE
  /\ ev' = [ev EXCEPT ![t].noted = TRUE]
  /\ Goto(t, "ret")
  /\ UNCHANGED <<now, length_seconds, count_below_zero, target_hwnd,
                 elapsed, ret, osVars, hookVars, uiVars, readOf, shadowRet>>

CallbackReturn_ForgetsTarget(t) ==
  /\ pc[t] = "ret"
  /\ ev' = [ev EXCEPT ![t] = NoEvent]
  /\ target_hwnd' = IF ev[t].queried /\ ~ev[t].noted THEN 0 ELSE target_hwnd
  /\ Goto(t, "idle")
  /\ UNCHANGED <<now, last_activity_ts, lock, length_seconds, count_below_zero,
                 elapsed, ret, osVars, hookVars, uiVars, histVars>>

\* the callback returns to the listener, which waits for the next event
CallbackReturn(t) ==
  /\ pc[t] = "ret"
  /\ ev' = [ev EXCEPT ![t] = NoEvent]
  /\ Goto(t, "idle")
  /\ UNCHANGED <<now, clockVars, elapsed, ret, osVars, hookVars, uiVars, histVars>>

\* ------------------------------------------------------------ specifications
ListenerStep ==
  \/ OnKeyPress
  \/ KeyPressForeground
  \/ OnKeyRelease
  \/ \E p \in BOOLEAN : OnClick(p)
  \/ ClickHitTest
  \/ OnMove
  \/ OnScroll
  \/ \E t \in Observers : NoteActivityAcquire(t)
  \/ \E t \in Observers : NoteActivityWrite(t)
  \/ \E t \in Observers : CallbackReturn(t)

ResetToFullStep ==
  \/ ResetToFullCall
  \/ ResetToFullAcquire
  \/ ResetToFullWrite

RemainingSecondsStep ==
  \/ RemainingSecondsCall
  \/ RemainingSecondsAcquire
  \/ RemainingSecondsRead
  \/ RemainingSecondsReturn
  \/ RemainingSecondsDone

\* The clock: the control thread resets, reads and toggles the check box while
\* both listeners attribute activity to the fixed target.
NextClock ==
  \/ Advance
  \/ \E b \in BOOLEAN : OnBelowZeroChanged(b)
  \/ ResetToFullStep
  \/ RemainingSecondsStep
  \/ ListenerStep

SpecClock == InitClock /\ [][NextClock]_vars

\* The observer: the control thread changes the target and resets while both
\* listeners handle events.
NextObserver ==
  \/ Advance
  \/ \E h \in HwndOrZero : SetTargetHwnd(h)
  \/ ResetToFullStep
  \/ ListenerStep

SpecObserver == InitObserver /\ [][NextObserver]_vars

\* ------------------------------------------------ InputHookController lifecycle
notHooks == <<now, clockVars, elapsed, ret, ev, osVars, uiVars, histVars>>

\* threading.Thread.is_alive(): from Thread.start() until _run has returned
Alive(i) == run[i] \notin {"unborn", "dead"}
Running == thread_ref # 0 /\ Alive(thread_ref)
Unborn == {i \in ThreadIds : run[i] = "unborn"}
NextThread == CHOOSE i \in Unborn : \A j \in Unborn : i <= j

\* start(), line 215: the call is entered (while a thread object is left to make)
StartCall ==
  /\ pc[UI] = "idle"
  /\ Unborn # {}
  /\ Goto(UI, "start_chk")
  /\ UNCHANGED <<notHooks, hookVars>>

\* start(), lines 216-220, without the is_alive test
StartBody_NoAliveCheck ==
  /\ pc[UI] = "start_chk"
  /\ stop_event' = FALSE
  /\ thread_ref' = NextThread
  /\ run' = [run EXCEPT ![NextThread] = "born"]
  /\ Goto(UI, "idle")
  /\ UNCHANGED <<notHooks, kb_ref, ms_ref, lsn, swallowed>>

\* start(), lines 216-220
StartBody ==
  /\ pc[UI] = "start_chk"
  /\ IF Running
       THEN UNCHANGED <<stop_event, thread_ref, run>>
       ELSE /\ stop_event' = FALSE
            /\ thread_ref' = NextThread
            /\ run' = [run EXCEPT ![NextThread] = "born"]
  /\ Goto(UI, "idle")
  /\ UNCHANGED <<notHooks, kb_ref, ms_ref, lsn, swallowed>>

\* stop(), line 223
StopCall ==
  /\ pc[UI] = "idle"
  /\ stop_event' = TRUE
  /\ Goto(UI, "stop_kb")
  /\ UNCHANGED <<notHooks, thread_ref, kb_ref, ms_ref, run, lsn, swallowed>>

\* pynput Listener.stop(): ends a running listener, does nothing to one that
\* was not started or has stopped
Stopped(st) == IF st = "running" THEN "stopped" ELSE st

\* stop(), lines 224-228, with the exception of Listener.stop() let out
StopKb_Propagates ==
  /\ pc[UI] = "stop_kb"
  /\ \E throws \in BOOLEAN, done \in BOOLEAN :
       /\ (kb_ref = 0) => (~throws /\ ~done)
       /\ (~throws /\ kb_ref # 0) => done
       /\ lsn' = IF done THEN [lsn EXCEPT ![kb_ref].kb = Stopped(@)] ELSE lsn
       /\ swallowed' = swallowed
       /\ Goto(UI, IF throws THEN "raised" ELSE "stop_ms")
  /\ UNCHANGED <<notHooks, stop_event, thread_ref, kb_ref, ms_ref, run>>

\* stop(), lines 224-228: the keyboard listener, if any, is stopped; what it
\* throws is dropped, whether it had stopped the listener or not
StopKb ==
  /\ pc[UI] = "stop_kb"
  /\ \E throws \in BOOLEAN, done \in BOOLEAN :
       /\ (kb_ref = 0) => (~throws /\ ~done)
       /\ (~throws /\ kb_ref # 0) => done
       /\ lsn' = IF done THEN [lsn EXCEPT ![kb_ref].kb = Stopped(@)] ELSE lsn
       /\ swallowed' = IF throws THEN swallowed + 1 ELSE swallowed
  /\ Goto(UI, "stop_ms")
  /\ UNCHANGED <<notHooks, stop_event, thread_ref, kb_ref, ms_ref, run>>

\* stop(), lines 229-233: the same for the mouse listener
StopMs ==
  /\ pc[UI] = "stop_ms"
  /\ \E throws \in BOOLEAN, done \in BOOLEAN :
       /\ (ms_ref = 0) => (~throws /\ ~done)
       /\ (~throws /\ ms_ref # 0) => done
       /\ lsn' = IF done THEN [lsn EXCEPT ![ms_ref].ms = Stopped(@)] ELSE lsn
       /\ swallowed' = IF throws THEN swallowed + 1 ELSE swallowed
  /\ Goto(UI, "stop_join")
  /\ UNCHANGED <<notHooks, stop_event, thread_ref, kb_ref, ms_ref, run>>

\* stop(), lines 235-239: join(timeout=1.0) returns when the thread has ended,
\* when the second is over, or by throwing; the background threads run meanwhile
StopJoin ==
  /\ pc[UI] = "stop_join"
  /\ \E throws \in BOOLEAN :
       /\ throws => Running
       /\ swallowed' = IF throws THEN swallowed + 1 ELSE swallowed
  /\ Goto(UI, "stop_clear")
  /\ UNCHANGED <<notHooks, stop_event, thread_ref, kb_ref, ms_ref, run, lsn>>

\* stop(), lines 241-243
StopClear ==
  /\ pc[UI] = "stop_clear"
  /\ kb_ref' = 0
  /\ ms_ref' = 0
  /\ thread_ref' = 0
  /\ swallowed' = 0
  /\ Goto(UI, "idle")
  /\ UNCHANGED <<notHooks, stop_event, run, lsn>>

\* _run, line 266
RunMakeKb(i) ==
  /\ run[i] = "born"
  /\ lsn' = [lsn EXCEPT ![i].kb = "created"]
  /\ kb_ref' = i
  /\ run' = [run EXCEPT ![i] = "mk_ms"]
  /\ UNCHANGED <<notHooks, pc, stop_event, thread_ref, ms_ref, swallowed>>

\* _run, line 267
RunMakeMs(i) ==
  /\ run[i] = "mk_ms"
  /\ lsn' = [lsn EXCEPT ![i].ms = "created"]
  /\ ms_ref' = i
  /\ run' = [run EXCEPT ![i] = "st_kb"]
  /\ UNCHANGED <<notHooks, pc, stop_event, thread_ref, kb_ref, swallowed>>

\* _run, line 269
RunStartKb(i) ==
  /\ run[i] = "st_kb"
  /\ lsn' = [lsn EXCEPT ![i].kb = "running"]
  /\ run' = [run EXCEPT ![i] = "st_ms"]
  /\ UNCHANGED <<notHooks, pc, stop_event, thread_ref, kb_ref, ms_ref, swallowed>>

\* _run, line 270
RunStartMs(i) ==
  /\ run[i] = "st_ms"
  /\ lsn' = [lsn EXCEPT ![i].ms = "running"]
  /\ run' = [run EXCEPT ![i] = "loop"]
  /\ UNCHANGED <<notHooks, pc, stop_event, thread_ref, kb_ref, ms_ref, swallowed>>

\* _run, lines 272-273: the flag is not set, the loop sleeps and tests again
LoopSleep(i) ==
  /\ run[i] = "loop"
  /\ ~stop_event
  /\ UNCHANGED <<notHooks, pc, hookVars>>

\* _run, lines 272-273, with a loop that never ends
LoopExit_Never(i) ==
  /\ run[i] = "loop"
  /\ stop_event
  /\ UNCHANGED <<notHooks, pc, hookVars>>

\* _run, lines 272-273: the flag is set, the loop ends and _run returns
LoopExit(i) ==
  /\ run[i] = "loop"
  /\ stop_event
  /\ run' = [run EXCEPT ![i] = "dead"]
  /\ UNCHANGED <<notHooks, pc, stop_event, thread_ref, kb_ref, ms_ref, lsn, swallowed>>

ThreadStep(i) ==
  \/ RunMakeKb(i)
  \/ RunMakeMs(i)
  \/ RunStartKb(i)
  \/ RunStartMs(i)
  \/ LoopSleep(i)
  \/ LoopExit(i)

\* The controller as __init__ leaves it (lines 207-213), no target selected.
InitHooks ==
  /\ InitTimer
  /\ InitTree
  /\ InitHooksNew
  /\ InitWindow
  /\ preferred_hint = <<>>
  /\ length_seconds = Length90
  /\ count_below_zero = TRUE
  /\ target_hwnd = 0
  /\ InitTick

NextHooks ==
  \/ StartCall
  \/ StartBody
  \/ StopCall
  \/ StopKb
  \/ StopMs
  \/ StopJoin
  \/ StopClear
  \/ \E i \in ThreadIds : ThreadStep(i)

SpecHooks == InitHooks /\ [][NextHooks]_vars

\* The same with every background thread scheduled fairly.
SpecHooksFair == SpecHooks /\ \A i \in ThreadIds : WF_vars(ThreadStep(i))

\* ------------------------------------------------------- target resolution
\* Titles are sequences of words.  "m" stands for the marker "2004scape game",
\* "b" for a browser brand (line 1043), "M" and "B" for the same in upper case.
MaxListed == 2
ListedHwnds == 1..MaxListed
Marker == <<"m">>
Brands == {<<"b">>}
Titles == {<<"a">>, <<"a", "M">>, <<"B", "m">>, <<"M">>}
RawHints == {<<>>, <<"A">>, <<"M">>}
NoWindow == <<>>

\* str.lower()
LowerWord(w) ==
  CASE w = "A" -> "a"
    [] w = "B" -> "b"
    [] w = "M" -> "m"
    [] OTHER -> w
Lower(t) == [k \in DOMAIN t |-> LowerWord(t[k])]

\* needle in hay
Contains(needle, hay) ==
  \E k \in 0..(Len(hay) - Len(needle)) : SubSeq(hay, k + 1, k + Len(needle)) = needle

\* str <= str on lowercased titles
Rank(w) == CASE w = " " -> 0 [] w = "a" -> 1 [] w = "b" -> 2 [] w = "m" -> 3 [] OTHER -> 4
RECURSIVE LessEq(_, _)
LessEq(s, t) ==
  IF s = <<>> THEN TRUE
  ELSE IF t = <<>> THEN FALSE
  ELSE IF Rank(Head(s)) # Rank(Head(t)) THEN Rank(Head(s)) < Rank(Head(t))
  ELSE LessEq(Tail(s), Tail(t))

\* EnumWindows over the windows the filter accepts, at most MaxListed at a
\* time: d[h] is the title of window h, NoWindow when h is not listed; the
\* z-order is not fixed
RECURSIVE EnumWindows(_, _, _)
EnumWindows(d, h, rev) ==
  IF h > MaxListed THEN <<>>
  ELSE LET rest == EnumWindows(d, h + 1, rev)
           me == IF d[h] = NoWindow THEN <<>> ELSE << <<h, d[h]>> >>
       IN IF rev THEN rest \o me ELSE me \o rest

\* str <= str on titles as they are: capitals sort before small letters
RankRaw(w) ==
  CASE w = " " -> 0 [] w = "A" -> 1 [] w = "B" -> 2 [] w = "M" -> 3
    [] w = "a" -> 4 [] w = "b" -> 5 [] w = "m" -> 6 [] OTHER -> 7
RECURSIVE LessEqRaw(_, _)
LessEqRaw(s, t) ==
  IF s = <<>> THEN TRUE
  ELSE IF t = <<>> THEN FALSE
  ELSE IF RankRaw(Head(s)) # RankRaw(Head(t)) THEN RankRaw(Head(s)) < RankRaw(Head(t))
  ELSE LessEqRaw(Tail(s), Tail(t))

\* line 126 with the key not put in lower case
RECURSIVE InsertSorted_CaseSensitive(_, _)
InsertSorted_CaseSensitive(x, srt) ==
  IF srt = <<>> THEN <<x>>
  ELSE IF LessEqRaw(Head(srt)[2], x[2])
         THEN <<Head(srt)>> \o InsertSorted_CaseSensitive(x, Tail(srt))
         ELSE <<x>> \o srt

\* list.sort(key=lambda x: x[1].lower()), line 126: a stable sort
RECURSIVE InsertSorted(_, _)
InsertSorted(x, srt) ==
  IF srt = <<>> THEN <<x>>
  ELSE IF LessEq(Lower(Head(srt)[2]), Lower(x[2]))
         THEN <<Head(srt)>> \o InsertSorted(x, Tail(srt))
         ELSE <<x>> \o srt

RECURSIVE SortByTitle(_)
SortByTitle(e) ==
  IF e = <<>> THEN <<>>
  ELSE LET front == SortByTitle(SubSeq(e, 1, Len(e) - 1))
       IN InsertSorted(e[Len(e)], front)

ListTargetWindows(d, rev) == SortByTitle(EnumWindows(d, 1, rev))

\* every list that list_target_windows can return
Directories == [ListedHwnds -> Titles \cup {NoWindow}]
Listings == {ListTargetWindows(d, rev) : d \in Directories, rev \in BOOLEAN}

\* window_combo.currentData() of a combo holding items at index idx, 0 for none
CurrentData(items, idx) == IF idx = 0 THEN 0 ELSE items[idx][1]

\* the first index whose item passes, 0 for none
FirstIndex(items, Pass(_)) ==
  IF \E k \in DOMAIN items : Pass(items[k])
    THEN CHOOSE k \in DOMAIN items :
           Pass(items[k]) /\ \A j \in DOMAIN items : Pass(items[j]) => k <= j
    ELSE 0

HasMarker(it) == Contains(Marker, Lower(it[2]))
HasBrand(it) == \E b \in Brands : Contains(b, Lower(it[2]))
Rule1(it) == HasMarker(it) /\ ~HasBrand(it)

\* lines 1048-1053, with an empty hint taken to match
HintIndex_EmptyMatches(items, hint) ==
  LET Match(it) == Contains(hint, Lower(it[2])) IN FirstIndex(items, Match)

\* lines 1048-1053
HintIndex(items, hint) ==
  LET Match(it) == hint # <<>> /\ Contains(hint, Lower(it[2]))
  IN IF hint # <<>> THEN FirstIndex(items, Match) ELSE 0

\* lines 1039-1063 with the marker rule not looking at the brand
BestIndex_RelaxedFirst(items, hint) ==
  LET r3 == FirstIndex(items, HasMarker)
      h == HintIndex(items, hint)
  IN IF r3 # 0 THEN r3 ELSE IF h # 0 THEN h ELSE 1

\* lines 1039-1063 without the relaxed marker loop
BestIndex_NoRelaxed(items, hint) ==
  LET r1 == FirstIndex(items, Rule1)
      h == HintIndex(items, hint)
  IN IF r1 # 0 THEN r1 ELSE IF h # 0 THEN h ELSE 1

\* _select_best_default_target, lines 1039-1063, over a combo that is not empty
BestIndex(items, hint) ==
  LET r1 == FirstIndex(items, Rule1)
      h == HintIndex(items, hint)
      r3 == FirstIndex(items, HasMarker)
  IN IF r1 # 0 THEN r1
     ELSE IF h # 0 THEN h
     ELSE IF r3 # 0 THEN r3
     ELSE 1

\* _refresh_windows, lines 1025-1030, never finding the handle
StickyIndex_Never(items, cur) == 0

\* _refresh_windows, lines 1025-1030: where the handle selected before is now
StickyIndex(items, cur) ==
  LET Same(it) == it[1] = cur IN IF cur # 0 THEN FirstIndex(items, Same) ELSE 0

\* _refresh_windows and _select_best_default_target with the title rule tried
\* before the handle selected before
RefreshIndex_TitleFirst(items, cur, hint) ==
  LET r1 == FirstIndex(items, Rule1)
      s == StickyIndex(items, cur)
  IN IF items = <<>> THEN 0
     ELSE IF r1 # 0 THEN r1
     ELSE IF s # 0 THEN s
     ELSE BestIndex(items, hint)

\* _refresh_windows, lines 1025-1032, and _select_best_default_target, lines
\* 1035-1037: the index selected at the end of a refresh, 0 for an empty combo
RefreshIndex(items, cur, hint) ==
  LET s == StickyIndex(items, cur)
  IN IF s # 0 THEN s
     ELSE IF items = <<>> THEN 0
     ELSE BestIndex(items, hint)

\* reset_to_full called by the window with no other thread at the lock
TimerReset ==
  /\ lock = NoThread
  /\ last_activity_ts' = ResetToFullTs(now, last_activity_ts)
  /\ shadow_ts' = NoteActivityTs(now, shadow_ts)
  /\ writeAt' = now
  /\ writer' = "reset"
  /\ clampedSince' = FALSE

TimerKept == UNCHANGED <<last_activity_ts, shadow_ts, writeAt, writer, clampedSince>>

\* MainWindow._rearm_sound
RearmSound ==
  /\ sound_fired' = FALSE
  /\ alert' = [alert EXCEPT !.count = 0]

SoundKept == UNCHANGED <<sound_fired, alert>>

\* the refresh button, line 592
RefreshCall ==
  /\ pc[UI] = "idle"
  /\ Goto(UI, "refresh")
  /\ UNCHANGED <<now, clockVars, elapsed, ret, ev, osVars, hookVars, uiVars, histVars>>

RefreshWindows_KeepsTarget(items) ==
  /\ pc[UI] = "refresh"
  /\ LET cur == CurrentData(combo_items, combo_index)
         filled == IF items = <<>> THEN 0 ELSE 1
     IN \E idx \in {RefreshIndex(items, cur, preferred_hint)} :
          /\ combo_items' = items
          /\ combo_index' = idx
          /\ target_hwnd' = IF cur # 0 THEN cur ELSE CurrentData(items, idx)
          /\ IF idx # filled THEN TimerReset /\ RearmSound ELSE TimerKept /\ SoundKept
          /\ lastOp' = [op |-> "refresh", prev |-> cur]
  /\ Goto(UI, "refreshed")
  /\ UNCHANGED <<now, lock, length_seconds, count_below_zero, elapsed, ret, ev,
                 osVars, hookVars, preferred_hint, pollVars, listing, readOf, shadowRet>>

\* _refresh_windows, lines 1010-1032, with _select_best_default_target, lines
\* 1034-1066.  The combo is filled with its signals blocked, which leaves the
\* first item current; setCurrentIndex then emits currentIndexChanged, and so
\* runs _on_target_changed (lines 1068-1072), only when it moves the index.
RefreshWindows(items) ==
  /\ pc[UI] = "refresh"
  /\ LET cur == CurrentData(combo_items, combo_index)
         filled == IF items = <<>> THEN 0 ELSE 1
     IN \E idx \in {RefreshIndex(items, cur, preferred_hint)} :
          /\ combo_items' = items
          /\ combo_index' = idx
          /\ target_hwnd' = CurrentData(items, idx)
          /\ IF idx # filled THEN TimerReset /\ RearmSound ELSE TimerKept /\ SoundKept
          /\ lastOp' = [op |-> "refresh", prev |-> cur]
  /\ Goto(UI, "refreshed")
  /\ UNCHANGED <<now, lock, length_seconds, count_below_zero, elapsed, ret, ev,
                 osVars, hookVars, preferred_hint, pollVars, listing, readOf, shadowRet>>

RefreshReturn ==
  /\ pc[UI] = "refreshed"
  /\ lastOp' = NoOp
  /\ Goto(UI, "idle")
  /\ UNCHANGED <<now, clockVars, elapsed, ret, ev, osVars, hookVars,
                 combo_items, combo_index, preferred_hint, tickVars, listing, histVars>>

\* the user picks item i of the combo: currentIndexChanged is emitted when the
\* index moves and runs _on_target_changed, lines 1068-1072
OnTargetChanged(i) ==
  /\ pc[UI] = "idle"
  /\ i \in DOMAIN combo_items
  /\ IF i = combo_index
       THEN /\ TimerKept
            /\ SoundKept
            /\ UNCHANGED <<combo_index, target_hwnd>>
       ELSE /\ combo_index' = i
            /\ target_hwnd' = CurrentData(combo_items, i)
            /\ TimerReset
            /\ RearmSound
  /\ UNCHANGED <<now, lock, length_seconds, count_below_zero, pc, elapsed, ret, ev,
                 osVars, hookVars, combo_items, preferred_hint, pollVars, listing, lastOp, readOf, shadowRet>>

\* The window once built with no window to list: the hint loaded and put in
\* lower case (lines 982-985), nothing selected, the target 0 (line 1036).
InitResolver ==
  /\ InitTimer
  /\ InitTree
  /\ InitHooksRunning
  /\ InitWindow
  /\ preferred_hint \in {Lower(r) : r \in RawHints}
  /\ length_seconds = Length90
  /\ count_below_zero = TRUE
  /\ target_hwnd = 0
  /\ InitTick

NextResolver ==
  \/ RefreshCall
  \/ \E items \in Listings : RefreshWindows(items)
  \/ RefreshReturn
  \/ \E i \in ListedHwnds : OnTargetChanged(i)

SpecResolver == InitResolver /\ [][NextResolver]_vars

\* The same window TickSeconds after the reset_to_full that ends __init__
\* (line 761), so that a later reset moves the timestamp.
InitResolverLate ==
  /\ now = TickSeconds
  /\ last_activity_ts = 0
  /\ lock = NoThread
  /\ pc = [t \in Threads |-> "idle"]
  /\ elapsed = <<>>
  /\ ret = <<>>
  /\ ev = [t \in Observers |-> NoEvent]
  /\ writeAt = 0
  /\ writer = "reset"
  /\ readOf = NoRead
  /\ clampedSince = FALSE
  /\ shadow_ts = 0
  /\ shadowRet = <<>>
  /\ InitTree
  /\ InitHooksRunning
  /\ InitWindow
  /\ preferred_hint \in {Lower(r) : r \in RawHints}
  /\ length_seconds = Length90
  /\ count_below_zero = TRUE
  /\ target_hwnd = 0
  /\ InitTick

SpecResolverLate == InitResolverLate /\ [][NextResolver]_vars

\* ---------------------------------------------- the hit test, call by call
\* on_click, lines 259-262, and hwnd_is_target_or_child, lines 135-140
HitPoint ==
  /\ pc[MS] = "clk_hit"
  /\ \E w \in HwndOrZero \cup {QueryFailed} :
       /\ ev' = [ev EXCEPT ![MS].queried = TRUE, ![MS].hwnd = w,
                           ![MS].cur = IF w = QueryFailed THEN 0 ELSE w]
       /\ Goto(MS, IF w = QueryFailed \/ w = 0 \/ ev[MS].target = 0 THEN "ret"
                   ELSE IF w = ev[MS].target THEN "na_acq"
                   ELSE "hit_walk")
  /\ UNCHANGED <<now, clockVars, elapsed, ret, osVars, hookVars, uiVars, histVars>>

\* lines 141-147 with a failed GetParent tried again
HitWalk_RetryOnFailure ==
  /\ pc[MS] = "hit_walk"
  /\ LET cur == ev[MS].cur
         nxt == parentOf[cur]
     IN IF cur = 0
          THEN /\ Goto(MS, "hit_roots")
               /\ ev' = ev
          ELSE IF nxt = QueryFailed
          THEN /\ UNCHANGED pc
               /\ ev' = [ev EXCEPT ![MS].calls = @ + 1]
          ELSE /\ ev' = [ev EXCEPT ![MS].cur = nxt, ![MS].calls = @ + 1]
               /\ Goto(MS, IF nxt = ev[MS].target THEN "na_acq" ELSE "hit_walk")
  /\ UNCHANGED <<now, clockVars, elapsed, ret, osVars, hookVars, uiVars, histVars>>

\* lines 141-147: one turn of `while cur:`
HitWalk ==
  /\ pc[MS] = "hit_walk"
  /\ LET cur == ev[MS].cur
         nxt == parentOf[cur]
     IN IF cur = 0
          THEN /\ Goto(MS, "hit_roots")
               /\ ev' = ev
          ELSE IF nxt = QueryFailed
          THEN /\ Goto(MS, "hit_roots")
               /\ ev' = [ev EXCEPT ![MS].calls = @ + 1]
          ELSE /\ ev' = [ev EXCEPT ![MS].cur = nxt, ![MS].calls = @ + 1]
               /\ Goto(MS, IF nxt = ev[MS].target THEN "na_acq" ELSE "hit_walk")
  /\ UNCHANGED <<now, clockVars, elapsed, ret, osVars, hookVars, uiVars, histVars>>

\* lines 149-156 with any two roots that resolve taken as the same
HitRoots_AnyRoot ==
  /\ pc[MS] = "hit_roots"
  /\ LET cr == rootOf[ev[MS].hwnd]
         tr == rootOf[ev[MS].target]
         same == cr # QueryFailed /\ tr # QueryFailed /\ cr # 0 /\ tr # 0
     IN Goto(MS, IF same THEN "na_acq" ELSE "ret")
  /\ UNCHANGED <<now, clockVars, elapsed, ret, ev, osVars, hookVars, uiVars, histVars>>

\* lines 149-158: the two GetAncestor calls and the comparison
HitRoots ==
  /\ pc[MS] = "hit_roots"
  /\ LET cr == rootOf[ev[MS].hwnd]
         tr == IF cr = QueryFailed THEN QueryFailed ELSE rootOf[ev[MS].target]
         same == cr # QueryFailed /\ tr # QueryFailed /\ cr # 0 /\ tr # 0 /\ cr = tr
     IN Goto(MS, IF same THEN "na_acq" ELSE "ret")
  /\ UNCHANGED <<now, clockVars, elapsed, ret, ev, osVars, hookVars, uiVars, histVars>>

\* The windows above h by GetParent, as far as the calls answer
RECURSIVE Above(_, _, _)
Above(par, hs, fuel) ==
  LET up == {par[x] : x \in hs} \cap Hwnds
  IN IF fuel = 0 \/ up \subseteq hs THEN hs \cup up ELSE Above(par, hs \cup up, fuel - 1)
Ancestors(par, h) == Above(par, {par[h]} \cap Hwnds, NumWindows)
Acyclic(par) == \A h \in Hwnds : h \notin Ancestors(par, h)

\* GetAncestor(h, GA_ROOT) when it answers: the top of the chain of h
RECURSIVE ChainTop(_, _, _)
ChainTop(par, h, fuel) ==
  IF fuel = 0 \/ par[h] \notin Hwnds THEN h ELSE ChainTop(par, par[h], fuel - 1)

\* Every window tree the OS can report (a parent relation has no cycle), each
\* GetParent free to raise, each GetAncestor free to raise or to answer none;
\* window 1 is the target.
InitWalk ==
  /\ InitTimer
  /\ InitHooksRunning
  /\ InitWindow
  /\ preferred_hint = <<>>
  /\ parentOf \in [Hwnds -> HwndOrZero \cup {QueryFailed}]
  /\ Acyclic(parentOf)
  /\ rootOf \in [Hwnds -> HwndOrZero \cup {QueryFailed}]
  /\ \A h \in Hwnds : rootOf[h] \in {ChainTop(parentOf, h, NumWindows), QueryFailed, 0}
  /\ length_seconds = Length90
  /\ count_below_zero = TRUE
  /\ target_hwnd = 1
  /\ InitTick

NextWalk ==
  \/ \E p \in BOOLEAN : OnClick(p)
  \/ HitPoint
  \/ HitWalk
  \/ HitRoots
  \/ NoteActivityAcquire(MS)
  \/ NoteActivityWrite(MS)
  \/ CallbackReturn(MS)

SpecWalk == InitWalk /\ [][NextWalk]_vars

\* ------------------------------------------------------ list_target_windows
\* What the OS answers about one window: IsWindowVisible, GetWindowText (a
\* sequence of words, " " a run of white space), the GWL_EXSTYLE query ("tool",
\* "plain" or "raises") and the calls of _get_exe_name_for_hwnd: the process id
\* ("ok", "none" for 0, "raises"), OpenProcess ("first" try, "second" try, or
\* both "fails"), GetModuleFileNameEx (a path, the empty path, or PathFailed).
RawTitles == {<<>>, <<" ">>, <<"a">>, <<"M">>, <<" ", "m">>}
PathFailed == <<"?">>
PathAnswers == {<<"c:", "Chrome.EXE">>, <<"chrome.exe", "calc.exe">>, <<>>, PathFailed}
BROWSER_EXES == {"chrome.exe", "msedge.exe", "firefox.exe", "brave.exe", "opera.exe",
                 "vivaldi.exe"}
ExeAnswers ==
  {o \in [pid : {"ok", "none", "raises"}, open : {"first", "second", "fails"},
          path : PathAnswers] :
     /\ o.pid # "ok" => o.open = "fails"
     /\ o.open = "fails" => o.path = <<>>}
Answers == [visible : BOOLEAN, title : RawTitles, style : {"tool", "plain", "raises"},
            exe : ExeAnswers]

\* str.strip()
RECURSIVE StripLeft(_)
StripLeft(t) == IF t # <<>> /\ Head(t) = " " THEN StripLeft(Tail(t)) ELSE t
RECURSIVE StripRight(_)
StripRight(t) ==
  IF t # <<>> /\ t[Len(t)] = " " THEN StripRight(SubSeq(t, 1, Len(t) - 1)) ELSE t
Strip(t) == StripRight(StripLeft(t))

\* lines 63-78 with a failed style query taken for a tool window
IsRealWindow_StyleFailureRejects(a) ==
  /\ a.visible
  /\ Strip(a.title) # <<>>
  /\ a.style = "plain"

\* _is_real_window, lines 63-78 (the handles EnumWindows passes are not 0)
IsRealWindow(a) ==
  /\ a.visible
  /\ Strip(a.title) # <<>>
  /\ ~(a.style # "raises" /\ a.style = "tool")

\* path.split("\\")[-1].lower()
LowerExe(n) == CASE n = "Chrome.EXE" -> "chrome.exe" [] OTHER -> n

\* _get_exe_name_for_hwnd, lines 81-104: "" is the empty name
GetExeName(o) ==
  IF o.pid = "raises" THEN ""
  ELSE IF o.pid = "none" THEN ""
  ELSE IF o.open = "fails" THEN ""
  ELSE IF o.path = PathFailed THEN ""
  ELSE IF o.path = <<>> THEN ""
  ELSE LowerExe(o.path[Len(o.path)])

\* lines 86-92: the process handles the two OpenProcess calls hand out, the
\* second call made only when the first raises
HandlesOpened(o) ==
  IF o.pid # "ok" THEN 0
  ELSE IF o.open = "first" THEN 1
  ELSE IF o.open = "second" THEN 1
  ELSE 0

\* lines 93-102 with the empty path returned before the handle is closed
HandlesClosed_EmptyPathLeaks(o) ==
  IF o.pid # "ok" \/ o.open = "fails" THEN 0
  ELSE IF o.path = PathFailed THEN 1
  ELSE IF o.path = <<>> THEN 0
  ELSE 1

\* lines 93-102: the CloseHandle calls of the finally clause, which the try
\* statement of line 93 reaches only with a handle, and leaves through the
\* query that raises (line 94), the empty path (line 96) or the name (line 97)
HandlesClosed(o) ==
  IF o.pid # "ok" \/ o.open = "fails" THEN 0
  ELSE IF o.path = PathFailed THEN 1
  ELSE IF o.path = <<>> THEN 1
  ELSE 1

\* the handles of one lookup, none when _window_allowed returns at line 110
Lookup(asked, o) ==
  IF asked THEN [opened |-> HandlesOpened(o), closed |-> HandlesClosed(o)] ELSE NoHandle

\* _window_allowed, lines 107-112
WindowAllowed(a) ==
  \/ Contains(Marker, Lower(Strip(a.title)))
  \/ GetExeName(a.exe) \in BROWSER_EXES

\* list_target_windows, line 116, entered from the idle window
ListCall ==
  /\ pc[UI] = "idle"
  /\ listing' = [NoListing EXCEPT !.pos = 1]
  /\ Goto(UI, "enum")
  /\ UNCHANGED <<now, clockVars, elapsed, ret, ev, osVars, hookVars, histVars,
                 combo_items, combo_index, preferred_hint, tickVars, lastOp>>

\* enum_cb, lines 118-123, with what _get_exe_name_for_hwnd raises let out
EnumCallback_LookupEscapes(a) ==
  /\ pc[UI] = "enum"
  /\ listing.pos \in Hwnds
  /\ LET failed == a.exe.pid # "ok" \/ a.exe.open = "fails" \/ a.exe.path \in {<<>>, PathFailed}
         raises == a.exe.pid = "raises" \/ a.exe.open = "fails" \/ a.exe.path = PathFailed
         asked == IsRealWindow(a) /\ ~Contains(Marker, Lower(Strip(a.title)))
         take == IsRealWindow(a) /\ WindowAllowed(a)
     IN /\ listing' = [listing EXCEPT
                         !.last = a,
                         !.failed = IF asked /\ failed THEN @ + 1 ELSE @,
                         !.hproc = Lookup(asked, a.exe),
                         !.held = @ + Lookup(asked, a.exe).opened - Lookup(asked, a.exe).closed,
                         !.results = IF take THEN Append(@, <<listing.pos, a.title>>)
                                     ELSE @]
        /\ Goto(UI, IF asked /\ raises THEN "raised" ELSE "enum_ret")
  /\ UNCHANGED <<now, clockVars, elapsed, ret, ev, osVars, hookVars, histVars,
                 combo_items, combo_index, preferred_hint, tickVars, lastOp>>

\* enum_cb, lines 118-123, for the next window EnumWindows passes, answers a
EnumCallback(a) ==
  /\ pc[UI] = "enum"
  /\ listing.pos \in Hwnds
  /\ LET take == IsRealWindow(a) /\ WindowAllowed(a)
         asked == IsRealWindow(a) /\ ~Contains(Marker, Lower(Strip(a.title)))
         failed == a.exe.pid # "ok" \/ a.exe.open = "fails" \/ a.exe.path \in {<<>>, PathFailed}
     IN listing' = [listing EXCEPT
                      !.last = a,
                      !.failed = IF asked /\ failed THEN @ + 1 ELSE @,
                      !.hproc = Lookup(asked, a.exe),
                      !.held = @ + Lookup(asked, a.exe).opened - Lookup(asked, a.exe).closed,
                      !.results = IF take THEN Append(@, <<listing.pos, a.title>>)
                                  ELSE @]
  /\ Goto(UI, "enum_ret")
  /\ UNCHANGED <<now, clockVars, elapsed, ret, ev, osVars, hookVars, histVars,
                 combo_items, combo_index, preferred_hint, tickVars, lastOp>>

\* enum_cb returns True (line 123): EnumWindows goes on to the next window
EnumNext ==
  /\ pc[UI] = "enum_ret"
  /\ listing' = [listing EXCEPT !.pos = @ + 1, !.last = NoAnswer, !.hproc = NoHandle]
  /\ Goto(UI, "enum")
  /\ UNCHANGED <<now, clockVars, elapsed, ret, ev, osVars, hookVars, histVars,
                 combo_items, combo_index, preferred_hint, tickVars, lastOp>>

\* lines 125-127: EnumWindows is over, the sort, the return value
ListSort ==
  /\ pc[UI] = "enum"
  /\ listing.pos \notin Hwnds
  /\ listing' = [listing EXCEPT !.out = SortByTitle(listing.results)]
  /\ Goto(UI, "listed")
  /\ UNCHANGED <<now, clockVars, elapsed, ret, ev, osVars, hookVars, histVars,
                 combo_items, combo_index, preferred_hint, tickVars, lastOp>>

ListReturn ==
  /\ pc[UI] = "listed"
  /\ listing' = NoListing
  /\ Goto(UI, "idle")
  /\ UNCHANGED <<now, clockVars, elapsed, ret, ev, osVars, hookVars, histVars,
                 combo_items, combo_index, preferred_hint, tickVars, lastOp>>

InitDirectory ==
  /\ InitCommon
  /\ length_seconds = Length90
  /\ count_below_zero = TRUE
  /\ target_hwnd = 0
  /\ InitTick

NextDirectory ==
  \/ ListCall
  \/ \E a \in Answers : EnumCallback(a)
  \/ EnumNext
  \/ ListSort
  \/ ListReturn

SpecDirectory == InitDirectory /\ [][NextDirectory]_vars

\* Failing OS queries: the window tree of InitTree in which any GetParent and
\* any GetAncestor lookup may raise, any window the target.  A foreground query
\* that fails answers no window (GetForegroundWindow returns NULL, it does not
\* raise), which KeyPressForeground already draws.
TreeParent(h) == IF h = 2 THEN 1 ELSE 0
TreeRoot(h) == IF h = 2 THEN 1 ELSE h

InitFailures ==
  /\ InitTimer
  /\ InitHooksRunning
  /\ InitWindow
  /\ preferred_hint = <<>>
  /\ parentOf \in [Hwnds -> HwndOrZero \cup {QueryFailed}]
  /\ rootOf \in [Hwnds -> HwndOrZero \cup {QueryFailed}]
  /\ \A h \in Hwnds : parentOf[h] \in {TreeParent(h), QueryFailed}
  /\ \A h \in Hwnds : rootOf[h] \in {TreeRoot(h), QueryFailed}
  /\ length_seconds = Length90
  /\ count_below_zero = TRUE
  /\ target_hwnd \in Hwnds
  /\ InitTick

NextFailures ==
  \/ Advance
  \/ OnKeyPress
  \/ KeyPressForeground
  \/ \E p \in BOOLEAN : OnClick(p)
  \/ ClickHitTest
  \/ \E t \in Observers : NoteActivityAcquire(t)
  \/ \E t \in Observers : NoteActivityWrite(t)
  \/ \E t \in Observers : CallbackReturn(t)

SpecFailures == InitFailures /\ [][NextFailures]_vars

\* ------------------------------------------------------- the display poll
\* time.time() is the wall clock: it answers a lower value than before once the
\* system clock has been set back.
ClockSetBack ==
  /\ now >= TickSeconds
  /\ now' = now - TickSeconds
  /\ UNCHANGED <<clockVars, pc, elapsed, ret, ev, osVars, hookVars, uiVars, histVars>>

\* one second passes
Second ==
  /\ now + 1 <= ScenarioEnd
  /\ now' = now + 1
  /\ UNCHANGED <<clockVars, pc, elapsed, ret, ev, osVars, hookVars, uiVars, histVars>>

OnLengthChanged_KeepsThreshold(len) ==
  /\ pc[UI] = "idle"
  /\ len # length_seconds
  /\ length_seconds' = len
  /\ TimerReset
  /\ RearmSound
  /\ threshold_seconds' = threshold_seconds
  /\ lastOp' = [op |-> "length", prev |-> len]
  /\ Goto(UI, "edited")
  /\ UNCHANGED <<now, lock, count_below_zero, target_hwnd, elapsed, ret, ev,
                 osVars, hookVars, combo_items, combo_index, preferred_hint, listing,
                 sound_threshold_seconds, last_remaining, danger, polled,
                 readOf, shadowRet>>

\* MainWindow._on_length_changed, run when the index of the length combo moves:
\* the length, reset_to_full with no other thread at the lock, the sound
\* rearmed, the threshold of the new length
OnLengthChanged(len) ==
  /\ pc[UI] = "idle"
  /\ len # length_seconds
  /\ length_seconds' = len
  /\ TimerReset
  /\ RearmSound
  /\ threshold_seconds' = DefaultThreshold(len)
  /\ lastOp' = [op |-> "length", prev |-> len]
  /\ Goto(UI, "edited")
  /\ UNCHANGED <<now, lock, count_below_zero, target_hwnd, elapsed, ret, ev,
                 osVars, hookVars, combo_items, combo_index, preferred_hint, listing,
                 sound_threshold_seconds, last_remaining, danger, polled,
                 readOf, shadowRet>>

OnThresholdChanged_BadTextClears(txt) ==
  /\ pc[UI] = "idle"
  /\ threshold_seconds' = IF txt = <<>> THEN 0 ELSE Max(0, txt[1])
  /\ lastOp' = [op |-> IF txt = <<>> THEN "threshold_bad" ELSE "threshold",
                prev |-> threshold_seconds]
  /\ Goto(UI, "edited")
  /\ UNCHANGED <<now, clockVars, elapsed, ret, ev, osVars, hookVars,
                 combo_items, combo_index, preferred_hint, listing,
                 sound_threshold_seconds, last_remaining, danger, polled, soundVars,
                 histVars>>

\* MainWindow._on_threshold_changed: txt is <<v>> for a text that reads as the
\* number v, <<>> for a text that does not (the except branch keeps the value)
OnThresholdChanged(txt) ==
  /\ pc[UI] = "idle"
  /\ threshold_seconds' = IF txt = <<>> THEN threshold_seconds ELSE Max(0, txt[1])
  /\ lastOp' = [op |-> IF txt = <<>> THEN "threshold_bad" ELSE "threshold",
                prev |-> threshold_seconds]
  /\ Goto(UI, "edited")
  /\ UNCHANGED <<now, clockVars, elapsed, ret, ev, osVars, hookVars,
                 combo_items, combo_index, preferred_hint, listing,
                 sound_threshold_seconds, last_remaining, danger, polled, soundVars,
                 histVars>>

\* the handler of an edit returns
EditReturn ==
  /\ pc[UI] = "edited"
  /\ lastOp' = NoOp
  /\ Goto(UI, "idle")
  /\ UNCHANGED <<now, clockVars, elapsed, ret, ev, osVars, hookVars,
                 combo_items, combo_index, preferred_hint, listing, tickVars, histVars>>

\* MainWindow._tick_ui: the call of remaining_seconds, its lock, its locked
\* read, then the rest of the handler
TickCall ==
  /\ pc[UI] = "idle"
  /\ Goto(UI, "tick_acq")
  /\ UNCHANGED <<now, clockVars, elapsed, ret, ev, osVars, hookVars, uiVars, histVars>>

TickAcquire ==
  /\ pc[UI] = "tick_acq"
  /\ Acquire(UI)
  /\ Goto(UI, "tick_read")
  /\ UNCHANGED <<now, last_activity_ts, length_seconds, count_below_zero, target_hwnd,
                 elapsed, ret, ev, osVars, hookVars, uiVars, histVars>>

TickRead ==
  /\ pc[UI] = "tick_read"
  /\ elapsed' = <<Elapsed(now, last_activity_ts)>>
  /\ polled' = [ts |-> last_activity_ts, same |-> (last_activity_ts = polled.ts)]
  /\ Release(UI)
  /\ Goto(UI, "tick_body")
  /\ UNCHANGED <<now, last_activity_ts, length_seconds, count_below_zero, target_hwnd,
                 ret, ev, osVars, hookVars, winVars, threshold_seconds,
                 sound_threshold_seconds, last_remaining, danger, soundVars, histVars>>

\* _tick_ui, line 1195: the value is more than 0.75 s above the one polled
\* before; values are in units of 1/scale seconds
Rose(scale, last, r) == last # <<>> /\ 4 * r > 4 * last[1] + 3 * scale

\* _tick_ui, lines 1199-1200: the value polled before is above the sound
\* threshold and this one is not
Crossed(last, r, thr) == last # <<>> /\ last[1] > thr /\ r <= thr

\* the value polled before is not above the sound threshold and this one is
Returned(last, r, thr) == last # <<>> /\ last[1] <= thr /\ r > thr

TickBody_DangerBelowZero ==
  /\ pc[UI] = "tick_body"
  /\ LET remaining == Remaining(length_seconds, elapsed[1], count_below_zero)
         thr == sound_threshold_seconds
         rose == Rose(1, last_remaining, remaining)
         armed == rose \/ ~sound_fired
         play == armed /\ Crossed(last_remaining, remaining, thr)
     IN /\ sound_fired' = (~armed \/ play)
        /\ last_remaining' = <<remaining>>
        /\ danger' = (remaining < 0)
        /\ alert' = [played |-> play, again |-> play /\ alert.risen,
                     count |-> (IF rose THEN 0 ELSE alert.count) + (IF play THEN 1 ELSE 0),
                     risen |-> ~play /\ (alert.risen \/ rose),
                     returned |-> /\ ~play
                                  /\ \/ alert.returned
                                     \/ Returned(last_remaining, remaining, thr) /\ ~polled.same]
  /\ elapsed' = <<>>
  /\ Goto(UI, "idle")
  /\ UNCHANGED <<now, clockVars, ret, ev, osVars, hookVars, winVars, threshold_seconds,
                 sound_threshold_seconds, polled, histVars>>

TickBodyAt_NeverFired(scale) ==
  /\ pc[UI] = "tick_body"
  /\ LET remaining == Remaining(scale * length_seconds, elapsed[1], count_below_zero)
         thr == scale * sound_threshold_seconds
         rose == Rose(scale, last_remaining, remaining)
         armed == rose \/ ~sound_fired
         play == armed /\ Crossed(last_remaining, remaining, thr)
     IN /\ sound_fired' = ~armed
        /\ last_remaining' = <<remaining>>
        /\ danger' = (remaining <= scale * threshold_seconds)
        /\ alert' = [played |-> play, again |-> play /\ alert.risen,
                     count |-> (IF rose THEN 0 ELSE alert.count) + (IF play THEN 1 ELSE 0),
                     risen |-> ~play /\ (alert.risen \/ rose),
                     returned |-> /\ ~play
                                  /\ \/ alert.returned
                                     \/ Returned(last_remaining, remaining, thr) /\ ~polled.same]
  /\ elapsed' = <<>>
  /\ Goto(UI, "idle")
  /\ UNCHANGED <<now, clockVars, ret, ev, osVars, hookVars, winVars, threshold_seconds,
                 sound_threshold_seconds, polled, histVars>>

TickBodyAt_NoRearm(scale) ==
  /\ pc[UI] = "tick_body"
  /\ LET remaining == Remaining(scale * length_seconds, elapsed[1], count_below_zero)
         thr == scale * sound_threshold_seconds
         rose == Rose(scale, last_remaining, remaining)
         armed == ~sound_fired
         play == armed /\ Crossed(last_remaining, remaining, thr)
     IN /\ sound_fired' = (~armed \/ play)
        /\ last_remaining' = <<remaining>>
        /\ danger' = (remaining <= scale * threshold_seconds)
        /\ alert' = [played |-> play, again |-> play /\ alert.risen,
                     count |-> (IF rose THEN 0 ELSE alert.count) + (IF play THEN 1 ELSE 0),
                     risen |-> ~play /\ (alert.risen \/ rose),
                     returned |-> /\ ~play
                                  /\ \/ alert.returned
                                     \/ Returned(last_remaining, remaining, thr) /\ ~polled.same]
  /\ elapsed' = <<>>
  /\ Goto(UI, "idle")
  /\ UNCHANGED <<now, clockVars, ret, ev, osVars, hookVars, winVars, threshold_seconds,
                 sound_threshold_seconds, polled, histVars>>

\* lines 197-200 of remaining_seconds, then lines 1195-1206 of _tick_ui, with
\* the clock in units of 1/scale seconds and the configuration in seconds
TickBodyAt(scale) ==
  /\ pc[UI] = "tick_body"
  /\ LET remaining == Remaining(scale * length_seconds, elapsed[1], count_below_zero)
         thr == scale * sound_threshold_seconds
         rose == Rose(scale, last_remaining, remaining)
         armed == rose \/ ~sound_fired
         play == armed /\ Crossed(last_remaining, remaining, thr)
     IN /\ sound_fired' = (~armed \/ play)
        /\ last_remaining' = <<remaining>>
        /\ danger' = (remaining <= scale * threshold_seconds)
        /\ alert' = [played |-> play, again |-> play /\ alert.risen,
                     count |-> (IF rose THEN 0 ELSE alert.count) + (IF play THEN 1 ELSE 0),
                     risen |-> ~play /\ (alert.risen \/ rose),
                     returned |-> /\ ~play
                                  /\ \/ alert.returned
                                     \/ Returned(last_remaining, remaining, thr) /\ ~polled.same]
  /\ elapsed' = <<>>
  /\ Goto(UI, "idle")
  /\ UNCHANGED <<now, clockVars, ret, ev, osVars, hookVars, winVars, threshold_seconds,
                 sound_threshold_seconds, polled, histVars>>

\* the clock in whole seconds
TickBody == TickBodyAt(1)

TickStep ==
  \/ TickCall
  \/ TickAcquire
  \/ TickRead
  \/ TickBody

\* The scenario of the default configuration: the reset that ends __init__ at
\* time 0, no target selected and so no activity, the display polled as the
\* seconds pass.
NextScenario ==
  \/ Second
  \/ TickStep

SpecScenario == InitObserver /\ [][NextScenario]_vars

\* The display polled while the window changes the configuration and resets,
\* the keyboard listener notes activity, and the wall clock moves either way.
NextPoll ==
  \/ Advance
  \/ ClockSetBack
  \/ \E b \in BOOLEAN : OnBelowZeroChanged(b)
  \/ \E txt \in {<<>>, <<-1>>} : OnThresholdChanged(txt)
  \/ EditReturn
  \/ ResetToFullStep
  \/ TickStep
  \/ OnKeyPress
  \/ KeyPressForeground
  \/ NoteActivityAcquire(KB)
  \/ NoteActivityWrite(KB)
  \/ CallbackReturn(KB)

SpecPoll == InitClock /\ [][NextPoll]_vars

\* MainWindow._on_sound_threshold_changed: txt as for the threshold; a text
\* that reads as a number is stored, clamped at 0, and rearms the sound
OnSoundThresholdChanged(txt) ==
  /\ pc[UI] = "idle"
  /\ IF txt = <<>>
       THEN UNCHANGED <<sound_threshold_seconds, soundVars>>
       ELSE /\ sound_threshold_seconds' = Max(0, txt[1])
            /\ RearmSound
  /\ UNCHANGED <<now, clockVars, pc, elapsed, ret, ev, osVars, hookVars, winVars,
                 threshold_seconds, last_remaining, danger, polled, histVars>>

\* MainWindow._on_sound_selection_changed: another sound file is chosen (the
\* file itself is not part of the state) and the sound is rearmed
OnSoundSelectionChanged ==
  /\ pc[UI] = "idle"
  /\ RearmSound
  /\ UNCHANGED <<now, clockVars, pc, elapsed, ret, ev, osVars, hookVars, winVars,
                 pollVars, histVars>>

\* half a second passes
HalfSecond ==
  /\ now + 1 <= SoundEnd
  /\ now' = now + 1
  /\ UNCHANGED <<clockVars, pc, elapsed, ret, ev, osVars, hookVars, uiVars, histVars>>

\* The sound: the clock in half seconds, the default configuration, two
\* windows listed and the first the target; the display polled at any half
\* second while the keyboard listener notes activity and the user changes the
\* sound threshold, the sound file, the length and the target.
TwoWindows == CHOOSE items \in Listings : Len(items) = 2

InitSound ==
  /\ InitTimer
  /\ InitTree
  /\ InitHooksRunning
  /\ listing = NoListing
  /\ lastOp = NoOp
  /\ combo_items = TwoWindows
  /\ combo_index = 1
  /\ preferred_hint = <<>>
  /\ length_seconds = Length90
  /\ count_below_zero = TRUE
  /\ target_hwnd = CurrentData(combo_items, combo_index)
  /\ InitTickAt(Halves, Threshold15)

NextSound ==
  \/ HalfSecond
  \/ TickCall
  \/ TickAcquire
  \/ TickRead
  \/ TickBodyAt(Halves)
  \/ \E txt \in {<<>>, <<-1>>, <<Length90 - 1>>} : OnSoundThresholdChanged(txt)
  \/ OnSoundSelectionChanged
  \/ \E len \in Lengths : OnLengthChanged(len)
  \/ EditReturn
  \/ \E i \in ListedHwnds : OnTargetChanged(i)
  \/ OnKeyPress
  \/ KeyPressForeground
  \/ NoteActivityAcquire(KB)
  \/ NoteActivityWrite(KB)
  \/ CallbackReturn(KB)

SpecSound == InitSound /\ [][NextSound]_vars

\* The configuration edited: the window as built from any saved threshold, the
\* length and the threshold changed by the user while time passes and the
\* keyboard listener notes activity.
InitConfig ==
  /\ InitCommon
  /\ length_seconds \in Lengths
  /\ count_below_zero \in BOOLEAN
  /\ target_hwnd = 1
  /\ \E saved \in {[kind |-> "none", v |-> 0], [kind |-> "int", v |-> -1],
                    [kind |-> "int", v |-> 40], [kind |-> "text", v |-> 0]} :
       InitTickWith(LoadThreshold(saved, length_seconds))

NextConfig ==
  \/ Advance
  \/ \E b \in BOOLEAN : OnBelowZeroChanged(b)
  \/ \E len \in Lengths : OnLengthChanged(len)
  \/ \E txt \in {<<>>, <<-1>>, <<40>>} : OnThresholdChanged(txt)
  \/ EditReturn
  \/ OnKeyPress
  \/ KeyPressForeground
  \/ NoteActivityAcquire(KB)
  \/ NoteActivityWrite(KB)
  \/ CallbackReturn(KB)

SpecConfig == InitConfig /\ [][NextConfig]_vars

\* ------------------------------------------------------------ properties
\* Steps of one thread, told by its position or its event record changing.
Moves(t) == pc'[t] # pc[t]
ListenerMoves(t) == pc'[t] # pc[t] \/ ev'[t] # ev[t]
ReadReturned == pc[UI] = "rs_done"
InCritical(t) == pc[t] \in {"reset_write", "rs_read", "na_write"}

\* C1: with count_below_zero set, a read made e seconds after the last write of
\* the timestamp returns length_seconds - e, negative once e > length_seconds.
C1_RemainingIsLengthMinusElapsed ==
  (ReadReturned /\ count_below_zero) => ret[1] = length_seconds - readOf.elapsed

C1_Witness ==
  /\ ReadReturned
  /\ count_below_zero
  /\ length_seconds = Length600
  /\ readOf.elapsed > length_seconds
  /\ ret[1] < 0

\* C2 as stated: a read made T' - T seconds after note_activity wrote the
\* timestamp returns length_seconds - (T' - T), whatever came before.
C2_Original ==
  (ReadReturned /\ readOf.writer = "note") => ret[1] = length_seconds - readOf.elapsed

\* C2, amended: a read made T' - T seconds after note_activity wrote the
\* timestamp returns length_seconds - (T' - T) when count_below_zero is set and
\* that value clamped at 0 when it is not, whatever came before.
C2_NoteActivityRestartsCountdown ==
  (ReadReturned /\ readOf.writer = "note") =>
     ret[1] = IF count_below_zero \/ length_seconds - readOf.elapsed >= 0
              THEN length_seconds - readOf.elapsed
              ELSE 0

C2_Witness ==
  /\ ReadReturned
  /\ readOf.writer = "note"
  /\ readOf.elapsed > 0
  /\ writeAt > 0
  /\ now = writeAt + readOf.elapsed
  /\ ret[1] = length_seconds - readOf.elapsed

\* C3: while count_below_zero is off, every value remaining_seconds returns is
\* at least 0, also when more than length_seconds have elapsed.
C3_ClampedNonNegative ==
  (ReadReturned /\ ~count_below_zero) => ret[1] >= 0

C3_Witness ==
  /\ ReadReturned
  /\ ~count_below_zero
  /\ readOf.elapsed > length_seconds
  /\ ret[1] = 0

\* C4: no step of remaining_seconds and no toggle of count_below_zero changes
\* the timestamp, and a read with count_below_zero set that follows clamped
\* reads returns length_seconds - e for the time e since the last write.
C4_Frame ==
  (\/ (Moves(UI) /\ (pc[UI] \in {"rs_acq", "rs_read", "rs_ret", "rs_done"}
                     \/ pc'[UI] = "rs_acq"))
   \/ count_below_zero' # count_below_zero)
  => last_activity_ts' = last_activity_ts

C4_Reveal ==
  (ReadReturned /\ count_below_zero /\ clampedSince)
  => ret[1] = length_seconds - readOf.elapsed

C4_ReadsAndTogglesKeepTimestamp == [][C4_Frame]_vars /\ []C4_Reveal

C4_Witness ==
  /\ ReadReturned
  /\ count_below_zero
  /\ clampedSince
  /\ ret[1] < 0

\* C5: the twin clock, in which every reset_to_full is replaced by
\* note_activity and every note_activity by reset_to_full, holds the same
\* timestamp and returns the same value from every read.
C5_ResetEqualsNoteActivity ==
  /\ shadow_ts = last_activity_ts
  /\ ReadReturned => shadowRet = ret

C5_Witness ==
  /\ ReadReturned
  /\ readOf.writer = "reset"
  /\ writeAt > 0
  /\ readOf.elapsed > 0
  /\ shadowRet = ret

\* C6: a thread reads or writes the timestamp only while it holds the lock, so
\* no two threads are at such an access together; the timestamp is always the
\* value of the last complete write, and that is what a read observes.
C6_LockGuardsTimestamp ==
  /\ \A t \in Threads : InCritical(t) => lock = t
  /\ \A t, u \in Threads : (InCritical(t) /\ InCritical(u)) => t = u
  /\ last_activity_ts = writeAt
  /\ pc[UI] \in {"rs_ret", "rs_done"} => elapsed[1] = readOf.elapsed

C6_Witness ==
  /\ pc[KB] = "na_write"
  /\ pc[MS] = "na_acq"
  /\ pc[UI] = "rs_acq"
  /\ lock = KB

\* C7: a key press leads to note_activity exactly when the target read as the
\* event is handled is non-zero and the foreground window is that target; a key
\* press with another window in the foreground leaves the timestamp alone.
KeyPressDone == pc[KB] = "ret" /\ ev[KB].kind = "key" /\ ev[KB].pressed
KeyPressAttributed ==
  ev[KB].target # 0 /\ ev[KB].queried /\ ev[KB].hwnd = ev[KB].target

C7_Outcome == KeyPressDone => (ev[KB].noted <=> KeyPressAttributed)

C7_Step ==
  /\ (pc[KB] = "idle" /\ ev'[KB].kind = "key" /\ ev'[KB].pressed)
       => ev'[KB].target = target_hwnd
  /\ (Moves(KB) /\ last_activity_ts' # last_activity_ts)
       => (ev[KB].pressed /\ KeyPressAttributed)

C7_KeyPressNotesIffFocused == []C7_Outcome /\ [][C7_Step]_vars

C7_Witness ==
  /\ KeyPressDone
  /\ ev[KB].noted
  /\ ev[KB].target = 2
  /\ last_activity_ts = now
  /\ now > 0

C7_WitnessUnfocused ==
  /\ KeyPressDone
  /\ ~ev[KB].noted
  /\ ev[KB].queried
  /\ ev[KB].target # 0
  /\ ev[KB].hwnd # ev[KB].target

\* C8: a mouse button event leads to note_activity exactly when it is a press,
\* the target read as the event is handled is non-zero and the hit test of the
\* window under the point against that target is true; a release never does.
ClickDone == pc[MS] = "ret" /\ ev[MS].kind = "click"
ClickAttributed ==
  /\ ev[MS].pressed
  /\ ev[MS].target # 0
  /\ ev[MS].queried
  /\ ev[MS].hwnd # QueryFailed
  /\ HwndIsTargetOrChild(ev[MS].hwnd, ev[MS].target, parentOf, rootOf)

C8_Outcome ==
  /\ ClickDone => (ev[MS].noted <=> ClickAttributed)
  /\ (ev[MS].kind = "click" /\ ~ev[MS].pressed) => (pc[MS] = "ret" /\ ~ev[MS].noted)

C8_Step ==
  /\ (pc[MS] = "idle" /\ ev'[MS].kind = "click" /\ ev'[MS].pressed)
       => ev'[MS].target = target_hwnd
  /\ (Moves(MS) /\ last_activity_ts' # last_activity_ts)
       => ClickAttributed

C8_ClickNotesIffPressOnTarget == []C8_Outcome /\ [][C8_Step]_vars

C8_Witness ==
  /\ ClickDone
  /\ ev[MS].noted
  /\ ev[MS].target = 1
  /\ ev[MS].hwnd = 2

C8_WitnessRelease ==
  /\ ClickDone
  /\ ~ev[MS].pressed
  /\ target_hwnd # 0

\* C9: a mouse move, a mouse wheel event and a key release never lead to
\* note_activity and never change the timestamp, whatever the target is.
Ignored(e) ==
  \/ e.kind \in {"move", "scroll"}
  \/ (e.kind = "key" /\ ~e.pressed)

C9_Outcome ==
  \A t \in Observers : Ignored(ev[t]) => (pc[t] = "ret" /\ ~ev[t].noted)

C9_Step ==
  \A t \in Observers :
    (ListenerMoves(t) /\ (Ignored(ev[t]) \/ Ignored(ev'[t])))
      => last_activity_ts' = last_activity_ts

C9_MoveWheelReleaseIgnored == []C9_Outcome /\ [][C9_Step]_vars

C9_Witness ==
  /\ ev[MS].kind = "move"
  /\ ev[KB].kind = "key"
  /\ ~ev[KB].pressed
  /\ target_hwnd # 0
  /\ now > last_activity_ts

C9_WitnessScroll ==
  /\ ev[MS].kind = "scroll"
  /\ target_hwnd # 0

\* C10 as stated: while the stored target is zero the timestamp is changed by
\* the control thread only.
C10_Original ==
  [][(target_hwnd = 0 /\ last_activity_ts' # last_activity_ts)
       => pc[UI] = "reset_write"]_vars

\* C10, amended: an event whose handler reads a zero target never leads to
\* note_activity; while the stored target is zero the timestamp is changed only
\* by the control thread or by an event whose handler had read a non-zero
\* target before the zero was stored.
C10_Outcome ==
  \A t \in Observers :
    (pc[t] \in {"na_acq", "na_write"} \/ ev[t].noted) => ev[t].target # 0

C10_Step ==
  /\ \A t \in Observers :
       (pc[t] = "idle" /\ Moves(t) /\ target_hwnd = 0) => pc'[t] = "ret"
  /\ (target_hwnd = 0 /\ last_activity_ts' # last_activity_ts)
       => \/ pc[UI] = "reset_write"
          \/ \E t \in Observers : pc[t] = "na_write" /\ ev[t].target # 0

C10_ZeroTargetSuspendsAttribution == []C10_Outcome /\ [][C10_Step]_vars

C10_Witness ==
  /\ target_hwnd = 0
  /\ writeAt > 0
  /\ KeyPressDone
  /\ ev[KB].target = 0
  /\ ~ev[KB].noted
  /\ ClickDone
  /\ ev[MS].pressed
  /\ ev[MS].target = 0
  /\ ~ev[MS].noted

\* C11: a handler reads the stored target when it begins handling an event,
\* keeps that value until it returns and decides against it; so an event begun
\* after set_target_hwnd(h) is decided against h, and only an event in hand
\* (one per listener) can still be decided against the handle stored before.
ReadsTarget(e) == e.pressed /\ e.kind \in {"key", "click"}

C11_Step ==
  /\ \A t \in Observers :
       /\ (pc[t] = "idle" /\ Moves(t) /\ ReadsTarget(ev'[t]))
            => ev'[t].target = target_hwnd
       /\ (pc[t] # "idle" /\ pc'[t] # "idle") => ev'[t].target = ev[t].target
  /\ (pc[KB] = "kp_fg" /\ Moves(KB))
       => (pc'[KB] = "na_acq" <=> ev'[KB].hwnd = ev[KB].target)
  /\ (pc[MS] = "clk_hit" /\ Moves(MS))
       => (pc'[MS] = "na_acq" <=>
             /\ ev'[MS].hwnd # QueryFailed
             /\ HwndIsTargetOrChild(ev'[MS].hwnd, ev[MS].target, parentOf, rootOf))

C11_TargetReadPerEvent == [][C11_Step]_vars

C11_Witness ==
  /\ pc[KB] = "kp_fg"
  /\ ev[KB].target = 1
  /\ target_hwnd = 2
  /\ pc[MS] = "clk_hit"
  /\ ev[MS].target = 2

\* C16: a thread holds the lock only at its read or write of the timestamp,
\* never at an OS query; a thread waiting for the lock does not hold it; and the
\* holder can always make its access and release, so no thread waits for ever.
Waiting(t) == pc[t] \in {"reset_acq", "rs_acq", "na_acq"}
AtOsQuery(t) == pc[t] \in {"kp_fg", "clk_hit"}

C16_LockOnlyAroundTimestamp ==
  /\ \A t \in Threads :
       /\ lock = t => (InCritical(t) /\ ~AtOsQuery(t))
       /\ Waiting(t) => lock # t
  /\ lock # NoThread =>
       ENABLED (\/ ResetToFullWrite
                \/ RemainingSecondsRead
                \/ \E t \in Observers : NoteActivityWrite(t))
  /\ (lock = NoThread /\ \E t \in Threads : Waiting(t)) =>
       ENABLED (\/ ResetToFullAcquire
                \/ RemainingSecondsAcquire
                \/ \E t \in Observers : NoteActivityAcquire(t))

C16_Witness ==
  /\ lock = KB
  /\ pc[MS] = "clk_hit"
  /\ pc[UI] = "rs_acq"

\* C15: an event whose OS query fails (no foreground window, WindowFromPoint
\* raising or answering none, GetParent and GetAncestor raising) is ignored:
\* note_activity is not called and the timestamp stays; the handler returns, and
\* the listener is back where it was before the event, ready for the next one.
FocusQueryFailed(e) == e.kind = "key" /\ e.queried /\ e.hwnd = 0
PointQueryFailed(e) == e.kind = "click" /\ e.queried /\ e.hwnd \in {QueryFailed, 0}
TreeQueryFailed(e) ==
  /\ e.kind = "click"
  /\ e.queried
  /\ e.hwnd \in Hwnds
  /\ e.hwnd # e.target
  /\ parentOf[e.hwnd] = QueryFailed
  /\ (rootOf[e.hwnd] = QueryFailed \/ rootOf[e.target] = QueryFailed)
QueryFailedFor(e) == FocusQueryFailed(e) \/ PointQueryFailed(e) \/ TreeQueryFailed(e)

C15_Outcome ==
  \A t \in Observers :
    /\ pc[t] \in {"idle", "kp_fg", "clk_hit", "na_acq", "na_write", "ret"}
    /\ QueryFailedFor(ev[t]) => (pc[t] = "ret" /\ ~ev[t].noted)
    /\ pc[t] = "ret" => ENABLED CallbackReturn(t)
    /\ pc[t] = "idle" => ev[t] = NoEvent

C15_Step ==
  \A t \in Observers :
    /\ (ListenerMoves(t) /\ (QueryFailedFor(ev[t]) \/ QueryFailedFor(ev'[t])))
         => last_activity_ts' = last_activity_ts
    /\ (pc[t] = "ret" /\ Moves(t)) => (pc'[t] = "idle" /\ ev'[t] = NoEvent)

C12_Step ==
  (pc[UI] = "start_chk" /\ pc'[UI] = "idle" /\ Running) => hookVars' = hookVars

C12_StartWhileRunningIsNoOp == [][C12_Step]_vars

C12_Witness ==
  /\ pc[UI] = "start_chk"
  /\ thread_ref = 1
  /\ run[1] = "loop"
  /\ lsn[1] = [kb |-> "running", ms |-> "running"]
  /\ Unborn = ThreadIds \ {1}

\* C13: stop() never raises and always returns, whatever the listeners' stop and
\* the join throw and whether or not start() came before; every stop() returns
\* with the flag set and the three references cleared, the second as the first.
InStop == pc[UI] \in {"stop_kb", "stop_ms", "stop_join", "stop_clear"}
StoppedFields == stop_event /\ thread_ref = 0 /\ kb_ref = 0 /\ ms_ref = 0

C13_Outcome ==
  /\ pc[UI] \in {"idle", "start_chk", "stop_kb", "stop_ms", "stop_join", "stop_clear"}
  /\ InStop => stop_event
  /\ InStop => ENABLED (StopKb \/ StopMs \/ StopJoin \/ StopClear)

C13_Step ==
  /\ (pc[UI] = "stop_clear" /\ pc'[UI] # "stop_clear") => (pc'[UI] = "idle" /\ StoppedFields')
  /\ (StoppedFields /\ (\A i \in ThreadIds : ~Alive(i)) /\ (InStop \/ InStop'))
       => <<stop_event, thread_ref, kb_ref, ms_ref, run, lsn>>'
            = <<stop_event, thread_ref, kb_ref, ms_ref, run, lsn>>

C13_StopIdempotentNeverRaises == []C13_Outcome /\ [][C13_Step]_vars

C13_Witness ==
  /\ pc[UI] = "stop_clear"
  /\ thread_ref = 0
  /\ run[1] = "dead"
  /\ stop_event
  /\ swallowed > 0

\* C14: when each thread is scheduled fairly, no background thread stays alive
\* for ever with the stop flag set: after stop() every live thread ends, unless
\* start() clears the flag again.  (P ~> ~P, written as []<>~P.)
StopPending(i) == stop_event /\ Alive(i)

C14_ShutdownCompletes == \A i \in ThreadIds : []<>~StopPending(i)

C14_Witness ==
  /\ pc[UI] = "idle"
  /\ thread_ref = 0
  /\ stop_event
  /\ run[1] = "dead"
  /\ Unborn = ThreadIds \ {1}

\* C17: a refresh that finds no handle selected and lists a window whose title
\* has the marker and no browser brand selects such a window, wherever it sorts
\* and whatever the hint.
Refreshed == pc[UI] = "refreshed"
Listed(Pass(_)) == \E k \in DOMAIN combo_items : Pass(combo_items[k])
Selected(Pass(_)) ==
  /\ combo_index \in DOMAIN combo_items
  /\ Pass(combo_items[combo_index])
  /\ target_hwnd = combo_items[combo_index][1]
PrevListed == lastOp.prev # 0 /\ \E k \in DOMAIN combo_items : combo_items[k][1] = lastOp.prev
BrandMarker(it) == HasMarker(it) /\ HasBrand(it)

C17_NonBrowserMarkerFirst ==
  (Refreshed /\ lastOp.prev = 0 /\ Listed(Rule1)) => Selected(Rule1)

C17_Witness ==
  /\ Refreshed
  /\ lastOp.prev = 0
  /\ Len(combo_items) >= 2
  /\ BrandMarker(combo_items[1])
  /\ combo_index = 2
  /\ Selected(Rule1)
  /\ preferred_hint = <<"m">>

\* C18 (as the code has it): the handle selected before is tried before the
\* title rule.  On a refresh that lists a marker window without a brand, the
\* target is the handle selected before when that is still listed, and is a
\* marker window without a brand only when it is not.
C18_PreviousHandleBeforeTitleRule ==
  (Refreshed /\ Listed(Rule1)) =>
    IF PrevListed THEN target_hwnd = lastOp.prev ELSE Selected(Rule1)

\* C18 as stated: the title rule wins over a different handle still listed.
C18_Original ==
  (Refreshed /\ Listed(Rule1) /\ PrevListed) => Selected(Rule1)

C18_Witness ==
  /\ Refreshed
  /\ PrevListed
  /\ Listed(Rule1)
  /\ target_hwnd = lastOp.prev
  /\ ~Selected(Rule1)

\* C19: a refresh that still lists the handle selected before keeps it as the
\* selection and the target, whatever else is listed.
C19_StickyAcrossRefresh ==
  (Refreshed /\ PrevListed) =>
    /\ target_hwnd = lastOp.prev
    /\ CurrentData(combo_items, combo_index) = lastOp.prev

C19_Witness ==
  /\ Refreshed
  /\ PrevListed
  /\ target_hwnd = lastOp.prev
  /\ Len(combo_items) >= 2
  /\ combo_index = 1
  /\ BrandMarker(combo_items[1])
  /\ Rule1(combo_items[2])

\* C20: with no marker window without a brand listed and the handle selected
\* before not listed, a hint that is not empty selects the first listed window
\* whose lowercased title contains it; an empty hint matches nothing, and the
\* first marker window, or else the first window, is selected.
HintMatch(it) == Contains(preferred_hint, Lower(it[2]))

C20_HintRule ==
  (Refreshed /\ ~PrevListed /\ ~Listed(Rule1) /\ combo_items # <<>>) =>
    /\ (preferred_hint # <<>> /\ Listed(HintMatch))
         => (Selected(HintMatch) /\ combo_index = FirstIndex(combo_items, HintMatch))
    /\ preferred_hint = <<>> =>
         /\ Listed(HasMarker)
              => (Selected(HasMarker) /\ combo_index = FirstIndex(combo_items, HasMarker))
         /\ ~Listed(HasMarker) => combo_index = 1

C20_Witness ==
  /\ Refreshed
  /\ ~PrevListed
  /\ ~Listed(Rule1)
  /\ preferred_hint = <<"a">>
  /\ Len(combo_items) >= 2
  /\ combo_index = 1
  /\ combo_items[1][2] = <<"a">>
  /\ BrandMarker(combo_items[2])

\* C21: when no marker window without a brand is listed, the handle selected
\* before is not listed and the hint matches nothing, a refresh selects the
\* first window with the marker in its title, or else the first window listed;
\* the target is 0 after a refresh exactly when nothing is listed.
HintApplies == preferred_hint # <<>> /\ Listed(HintMatch)

C21_RelaxedThenFirstThenNone ==
  Refreshed =>
    /\ (combo_items # <<>> /\ ~Listed(Rule1) /\ ~PrevListed /\ ~HintApplies) =>
         IF Listed(HasMarker)
           THEN Selected(HasMarker) /\ combo_index = FirstIndex(combo_items, HasMarker)
           ELSE combo_index = 1 /\ target_hwnd = combo_items[1][1]
    /\ target_hwnd = 0 <=> combo_items = <<>>

C21_Witness ==
  /\ Refreshed
  /\ ~PrevListed
  /\ preferred_hint = <<>>
  /\ Len(combo_items) = 2
  /\ combo_items[1][2] = <<"a">>
  /\ BrandMarker(combo_items[2])
  /\ combo_index = 2
  /\ target_hwnd = combo_items[2][1]

\* C22: every step that changes the stored target handle also resets the
\* clock, so that the timestamp is the time of the step and remaining_seconds
\* would return length_seconds.
C22_Step ==
  target_hwnd' # target_hwnd =>
    /\ last_activity_ts' = now'
    /\ Remaining(length_seconds', Elapsed(now', last_activity_ts'), count_below_zero')
         = length_seconds'

C22_TargetChangeResets == [][C22_Step]_vars

\* C23: the hit test answers true exactly when a window is under the point, the
\* target is set, and the window is the target, or the target is among the
\* windows above it by GetParent, or both roots resolve, are windows and are
\* the same window; so it answers false with no window under the point and for
\* a window of another tree.
Resolves(r) == r # QueryFailed /\ r # 0
Related(c, t) ==
  /\ c \in Hwnds
  /\ t \in Hwnds
  /\ \/ c = t
     \/ t \in Ancestors(parentOf, c)
     \/ Resolves(rootOf[c]) /\ Resolves(rootOf[t]) /\ rootOf[c] = rootOf[t]
HitDecided == pc[MS] \in {"na_acq", "na_write", "ret"} /\ ev[MS].queried
HitAnswer == pc[MS] \in {"na_acq", "na_write"} \/ ev[MS].noted

C23_HitTestTruthTable ==
  /\ HitDecided => (HitAnswer <=> Related(ev[MS].hwnd, ev[MS].target))
  /\ (pc[MS] = "idle") =>
       \A c, t \in HwndOrZero :
         HwndIsTargetOrChild(c, t, parentOf, rootOf) <=> Related(c, t)

C23_Witness ==
  /\ HitDecided
  /\ ~HitAnswer
  /\ ev[MS].hwnd \in Hwnds
  /\ ev[MS].calls > 0
  /\ parentOf[ev[MS].hwnd] = 0
  /\ Resolves(rootOf[ev[MS].hwnd])
  /\ Resolves(rootOf[ev[MS].target])

\* C24: the parent walk ends: it makes at most one GetParent call for each
\* window, always has a next step, and is left only on reaching the target, at
\* a window with no parent, or when the call fails; the hit test then answers.
InHitTest == pc[MS] \in {"hit_walk", "hit_roots"}

C24_Outcome ==
  /\ ev[MS].calls <= NumWindows
  /\ pc[MS] = "hit_walk" => ENABLED HitWalk
  /\ pc[MS] = "hit_roots" => ENABLED HitRoots

C24_Step ==
  /\ (pc[MS] = "hit_walk" /\ pc'[MS] # "hit_walk") =>
       \/ pc'[MS] = "na_acq" /\ ev'[MS].cur = ev[MS].target
       \/ pc'[MS] = "hit_roots" /\ ev[MS].cur = 0
       \/ pc'[MS] = "hit_roots" /\ parentOf[ev[MS].cur] = QueryFailed
  /\ (pc[MS] = "hit_walk" /\ pc'[MS] = "hit_walk") => ev'[MS].calls = ev[MS].calls + 1
  /\ (pc[MS] = "hit_roots" /\ pc'[MS] # "hit_roots") => pc'[MS] \in {"na_acq", "ret"}

C24_ParentWalkBounded == []C24_Outcome /\ [][C24_Step]_vars

C24_Witness ==
  /\ pc[MS] = "hit_roots"
  /\ ev[MS].calls = NumWindows - 1
  /\ ev[MS].cur = 0

\* C25: the list that list_target_windows returns holds the accepted windows
\* in ascending order of their lowercased titles.
Listed_ == pc[UI] = "listed"
SameEntries(s1, s2) ==
  /\ Len(s1) = Len(s2)
  /\ \A k \in DOMAIN s1 : \E j \in DOMAIN s2 : s2[j] = s1[k]

C25_SortedByLoweredTitle ==
  Listed_ =>
    /\ SameEntries(listing.results, listing.out)
    /\ \A k \in 1..(Len(listing.out) - 1) :
         LessEq(Lower(listing.out[k][2]), Lower(listing.out[k + 1][2]))

C25_Witness ==
  /\ Listed_
  /\ Len(listing.out) >= 2
  /\ listing.out[1][2] = <<"a">>
  /\ listing.out[2][2] = <<"M">>
  /\ listing.out[1][1] > listing.out[2][1]

\* C26: the window a callback was called for is in the results exactly when it
\* is visible, its title is not empty or white space, it is not a tool window
\* (a style query that raises counts as not a tool window), and its title has
\* the marker in any case or its executable is one of the browsers.
AfterCallback == pc[UI] = "enum_ret"
Taken ==
  /\ listing.results # <<>>
  /\ listing.results[Len(listing.results)] = <<listing.pos, listing.last.title>>
HasText(t) == \E k \in DOMAIN t : t[k] # " "
MarkerTitle(t) == \E k \in DOMAIN t : t[k] \in {"m", "M"}
BrowserProcess(o) ==
  /\ o.pid = "ok"
  /\ o.open \in {"first", "second"}
  /\ o.path \notin {<<>>, PathFailed}
  /\ o.path[Len(o.path)] \in {"chrome.exe", "Chrome.EXE"}

C26_ListedIffAccepted ==
  /\ AfterCallback =>
       (Taken <=> /\ listing.last.visible
                  /\ HasText(listing.last.title)
                  /\ listing.last.style # "tool"
                  /\ MarkerTitle(listing.last.title) \/ BrowserProcess(listing.last.exe))
  /\ Listed_ => SameEntries(listing.results, listing.out)

C26_Witness ==
  /\ AfterCallback
  /\ Taken
  /\ listing.last.style = "raises"
  /\ ~MarkerTitle(listing.last.title)
  /\ listing.last.exe.open = "second"

\* C27: a callback whose executable lookup fails (no process id, the id query
\* or both OpenProcess calls raising, the path query raising or answering the
\* empty path) gets the empty name: its window is taken only for its title, the
\* windows taken before stay, and the enumeration goes on to the next window
\* and to the sort.
LookupFailed(o) == o.pid # "ok" \/ o.open = "fails" \/ o.path \in {<<>>, PathFailed}

C27_Outcome ==
  /\ pc[UI] \in {"idle", "enum", "enum_ret", "listed"}
  /\ pc[UI] = "enum_ret" => ENABLED EnumNext
  /\ (AfterCallback /\ LookupFailed(listing.last.exe)) =>
       /\ GetExeName(listing.last.exe) = ""
       /\ Taken <=> (IsRealWindow(listing.last) /\ MarkerTitle(listing.last.title))
  /\ (pc[UI] = "enum" /\ listing.pos \in Hwnds) => ENABLED EnumCallback(NoAnswer)

C27_Step ==
  /\ (pc[UI] = "enum" /\ pc'[UI] # "enum") =>
       /\ pc'[UI] = IF listing.pos \in Hwnds THEN "enum_ret" ELSE "listed"
       /\ SubSeq(listing'.results, 1, Len(listing.results)) = listing.results
  /\ (pc[UI] = "enum_ret" /\ pc'[UI] # "enum_ret") =>
       /\ pc'[UI] = "enum"
       /\ listing'.pos = listing.pos + 1
       /\ listing'.results = listing.results

C27_LookupFailureSkipsOneWindow == []C27_Outcome /\ [][C27_Step]_vars

C27_Witness ==
  /\ AfterCallback
  /\ listing.pos = NumWindows
  /\ listing.failed = NumWindows - 2
  /\ ~LookupFailed(listing.last.exe)
  /\ ~MarkerTitle(listing.last.title)
  /\ Taken
  /\ Len(listing.results) = 2

\* a poll of the display returns to the window
PollEnds == pc[UI] = "tick_body" /\ pc'[UI] = "idle"

\* C28: with length 90, threshold 15 and the count below zero, a reset at time
\* 0 and no activity after it, the poll at time 95 finds -5 seconds remaining,
\* and every poll from time 76 on raises the danger flag.
C28_Step ==
  (PollEnds /\ elapsed[1] >= 76) =>
     /\ danger'
     /\ elapsed[1] = 95 => last_remaining' = <<-5>>
C28_ScenarioBelowZero == [][C28_Step]_vars
C28_Witness ==
  /\ pc[UI] = "idle"
  /\ now = 95
  /\ last_activity_ts = 0
  /\ last_remaining = <<-5>>
  /\ danger

\* C29: between two polls in a row with no write of the timestamp in between
\* (the two locked reads find the same timestamp), the value polled never
\* increases, whatever the window does to the check box and to the threshold
\* in between.
C29_Step ==
  (PollEnds /\ polled.same) =>
     last_remaining'[1] <= last_remaining[1]
C29_NeverIncreasesBetweenPolls == [][C29_Step]_vars

\* C30: at every read the timestamp is not after the clock, so that the elapsed
\* time is not negative and the value returned is not above the length.
C30_TimestampNotAfterNow ==
  pc[UI] = "tick_body" =>
     /\ elapsed[1] >= 0
     /\ Remaining(length_seconds, elapsed[1], count_below_zero) <= length_seconds

\* C31: after every refresh the target is 0 or the handle of a window of the
\* newest list, and it is 0 only when that list is empty; so a target whose
\* window has closed is not the target after the refresh.
TargetListed == \E k \in DOMAIN combo_items : combo_items[k][1] = target_hwnd
C31_RefreshHealsTarget ==
  Refreshed =>
    /\ target_hwnd = 0 \/ TargetListed
    /\ target_hwnd = 0 => combo_items = <<>>
C31_Witness ==
  /\ Refreshed
  /\ lastOp.prev # 0
  /\ ~PrevListed
  /\ combo_items # <<>>
  /\ TargetListed
  /\ target_hwnd # lastOp.prev

\* C32: handling a key or mouse event changes neither the configuration
\* (length, threshold, count below zero) nor the stored target, nor anything
\* else the window owns; the one shared value a handler changes is the
\* timestamp, and only at the write of note_activity.
C32_Step ==
  \A t \in Observers :
    ListenerMoves(t) =>
      /\ UNCHANGED <<length_seconds, threshold_seconds, sound_threshold_seconds,
                     count_below_zero, target_hwnd, winVars, hookVars>>
      /\ last_activity_ts' # last_activity_ts =>
           (pc[t] = "na_write" /\ last_activity_ts' = now)
C32_ObserverChangesOnlyTimestamp == [][C32_Step]_vars
C32_Witness ==
  /\ pc[MS] = "ret"
  /\ ev[MS].noted
  /\ writer = "note"
  /\ last_activity_ts = TickSeconds
  /\ target_hwnd # 0
  /\ length_seconds = Length90
  /\ threshold_seconds = Threshold15
  /\ count_below_zero

\* C33: a refresh that leaves the target the handle it was does not reset the
\* clock: the timestamp is the one before the refresh, wherever the retained
\* window stands in the new list.
C33_Step ==
  (pc[UI] = "refresh" /\ pc'[UI] = "refreshed" /\ target_hwnd' = target_hwnd)
    => last_activity_ts' = last_activity_ts
C33_SameTargetKeepsClock == [][C33_Step]_vars

\* C34: once stop() has returned (and until the next start()) no keyboard or
\* mouse listener made by a background thread is running, whatever the
\* interleaving of stop() with the start-up of the thread.
StopReturned == pc[UI] = "idle" /\ stop_event /\ thread_ref = 0
ListenerActive(i) == lsn[i].kb = "running" \/ lsn[i].ms = "running"
C34_NoListenerAfterStop ==
  StopReturned => \A i \in ThreadIds : ~ListenerActive(i)

\* C35: at any time at most one background thread is alive and at most one
\* thread's pair of listeners is running, through any sequence of start() and
\* stop(), a stop() whose join timed out included.
C35_AtMostOneThread ==
  /\ Cardinality({i \in ThreadIds : Alive(i)}) <= 1
  /\ Cardinality({i \in ThreadIds : ListenerActive(i)}) <= 1

\* C36: a change of the length stores the chosen length, resets the clock so
\* that a read made at once returns the new length, and sets the threshold to
\* the default of that length (15 for 90 seconds, 60 otherwise), whatever the
\* threshold was.
Edited(op) == pc[UI] = "edited" /\ lastOp.op = op
C36_Step ==
  (pc[UI] = "idle" /\ pc'[UI] = "edited" /\ lastOp'.op = "length") =>
    /\ length_seconds' = lastOp'.prev
    /\ Remaining(length_seconds', Elapsed(now', last_activity_ts'), count_below_zero')
         = length_seconds'
    /\ threshold_seconds' = IF lastOp'.prev = 90 THEN 15 ELSE 60
C36_LengthChangeResets == [][C36_Step]_vars
C36_Witness ==
  /\ Edited("length")
  /\ length_seconds = Length600
  /\ now = TickSeconds
  /\ last_activity_ts = now
  /\ threshold_seconds = 60

\* C37: the threshold is never negative; an edit is clamped at 0, and an edit
\* whose text is not a number leaves the threshold and the timestamp as they
\* were.
C37_Step ==
  /\ (pc[UI] = "idle" /\ pc'[UI] = "edited" /\ lastOp'.op = "threshold_bad")
       => UNCHANGED <<threshold_seconds, last_activity_ts>>
  /\ (pc[UI] = "idle" /\ pc'[UI] = "edited" /\ lastOp'.op = "threshold")
       => (threshold_seconds' >= 0 /\ last_activity_ts' = last_activity_ts)
C37_ThresholdNeverNegative == [](threshold_seconds >= 0) /\ [][C37_Step]_vars
C37_Witness ==
  /\ Edited("threshold_bad")
  /\ lastOp.prev = 40
  /\ threshold_seconds = 40
  /\ last_activity_ts = 0
  /\ now = TickSeconds

\* C38: the sound is played only by a poll that finds the value polled before
\* above the sound threshold and its own value at or below it, and at most once
\* between two rearm events (a rise of more than 0.75 s between polls, a change
\* of the target, of the length, of the sound threshold or of the sound file).
SoundThr == Halves * sound_threshold_seconds
C38_Step ==
  /\ alert'.played # alert.played => PollEnds
  /\ (PollEnds /\ alert'.played) =>
       /\ last_remaining[1] > SoundThr
       /\ last_remaining'[1] <= SoundThr
C38_SoundOneShot == [](alert.count <= 1) /\ [][C38_Step]_vars
C38_Witness ==
  /\ pc[UI] = "tick_body"
  /\ sound_fired
  /\ alert.count = 1
  /\ ~alert.risen
  /\ Crossed(last_remaining,
             Remaining(Halves * length_seconds, elapsed[1], count_below_zero), SoundThr)

\* C39 as stated: a poll that finds the value cross the sound threshold
\* downwards, after a poll had found it come back above the threshold through
\* a write of the timestamp, plays the sound, for every sound threshold below
\* the length.
C39_Original ==
  (PollEnds /\ alert.returned /\ sound_threshold_seconds < length_seconds
     /\ Crossed(last_remaining, last_remaining'[1], SoundThr))
    => alert'.played
C39_EveryReturnRearms == [][C39_Original]_vars

\* C39: the sound is rearmed by every rise of the polled value of more than
\* 0.75 s between two polls: a poll that finds the value cross the sound
\* threshold downwards after such a rise plays the sound again.  A return above
\* the threshold that the polls see as a rise of 0.75 s or less does not rearm.
C39_Step ==
  (PollEnds /\ alert.risen /\ Crossed(last_remaining, last_remaining'[1], SoundThr))
    => alert'.played
C39_RiseRearms == [][C39_Step]_vars
C39_Witness ==
  /\ pc[UI] = "idle"
  /\ alert.again
  /\ alert.count = 1
  /\ polled.ts > 0
  /\ sound_fired
  /\ sound_threshold_seconds = Length90 - 1

\* C40: a lookup that opens a process handle closes it once before it returns,
\* whether the path query gives a name, gives the empty path or raises, and a
\* lookup that opens none closes none; so no handle is open between two
\* lookups of list_target_windows nor after it has returned.
C40_HandleClosedOnce ==
  /\ listing.hproc.opened <= 1
  /\ listing.hproc.closed = listing.hproc.opened
  /\ listing.held = 0
C40_Witness ==
  /\ pc[UI] = "enum_ret"
  /\ listing.last.exe.open = "second"
  /\ listing.last.exe.path = <<>>
  /\ listing.hproc = [opened |-> 1, closed |-> 1]
  /\ listing.held = 0

====
